---------------------------- MODULE Spec2Model ----------------------------
(***************************************************************************)
(* A model of pcs-inspect.py: configure, the collector (collect_data and   *)
(* the get_* functions driving make_api_call), the alert job poller inside *)
(* get_alerts, the account flattening of get_accounts, read_collected_data,*)
(* the aggregator (process_collected_data, process_policies,               *)
(* process_alerts, process_summary) and the sheets of the report.          *)
(*                                                                         *)
(* Python dictionaries are functions whose domain is the set of keys: a    *)
(* read of a key outside the domain is the KeyError the interpreter        *)
(* raises.  An uncaught exception ends the run: exc names it and pc is     *)
(* "crashed".                                                              *)
(***************************************************************************)
EXTENDS Integers, Sequences, FiniteSets, TLC

VARIABLES
    CONFIG,         \* CONFIG: RUN_MODE, SUPPORT_API_MODE, the auth header
    DATA,           \* DATA: the parsed result files
    RESULTS,        \* RESULTS: the aggregation dictionaries
    pc,             \* position of the run
    idx,            \* index of the loop at pc (policy, alert or account)
    exc,            \* "none", or the uncaught exception that ended the run
    calls,          \* API requests issued so far, in order
    files,          \* categories whose result file exists on disk
    exit_code,      \* "running", or the code the process exited with
    out,            \* error messages printed so far
    job,            \* alert job: status answers received so far
    accounts,       \* get_accounts: the response, the children answers, account_list
    panda_writer    \* the spreadsheet: opened, the sheets written, saved to disk

vars == <<CONFIG, DATA, RESULTS, pc, idx, exc, calls, files, exit_code, out, job, accounts,
          panda_writer>>

collectVars == <<calls, files, exit_code, out, job, accounts, panda_writer>>

-----------------------------------------------------------------------------
(* Bounds of the model.                                                    *)

MaxPolicies == 2

MaxAlerts == 1

(* IN_PROGRESS answers the status endpoint gives before another answer. *)
MaxPolls == 2

MaxAccounts == 1

MaxChildren == 2

-----------------------------------------------------------------------------
(* Dictionary helpers.                                                     *)

EmptyDict == <<>>

Put(d, k, v) == [x \in (DOMAIN d) \cup {k} |-> IF x = k THEN v ELSE d[x]]

SetDefault(d, k, v) == IF k \in DOMAIN d THEN d ELSE Put(d, k, v)

NoException == [type |-> "none", line |-> 0]

Raised(type, line) == [type |-> type, line |-> line]

(* What a statement that raised KeyError leaves in the place of its value. *)
KeyError(k) == [KeyError |-> k]

Raises(v) == DOMAIN v = {"KeyError"}

(* d[k] += n: d[k] is read first, a KeyError when k is not a key of d. *)
Add(d, k, n) == IF k \in DOMAIN d THEN [d EXCEPT ![k] = @ + n] ELSE KeyError(k)

(* The statement d[key] += n of a line. *)
Increment(line, key, n) == [line |-> line, key |-> key, n |-> n]

(* The statements in turn, up to the first that raises: d as that one      *)
(* found it, and the KeyError of its line.                                 *)
RECURSIVE AddEach(_, _)
AddEach(d, increments) ==
    IF increments = <<>> THEN [d |-> d, raised |-> NoException]
    ELSE LET r == Add(d, Head(increments).key, Head(increments).n)
         IN  IF Raises(r) THEN [d |-> d, raised |-> Raised("KeyError", Head(increments).line)]
             ELSE AddEach(r, Tail(increments))

RECURSIVE SumSeq(_)
SumSeq(s) == IF s = <<>> THEN 0 ELSE Head(s) + SumSeq(Tail(s))

RECURSIVE SeqToSet(_)
SeqToSet(s) == IF s = <<>> THEN {} ELSE {Head(s)} \cup SeqToSet(Tail(s))

(* list(set).sort(): the members of S in ascending order, order being the  *)
(* ascending listing of the strings that can occur.                        *)
RECURSIVE SortedList(_, _)
SortedList(S, order) ==
    IF order = <<>> THEN <<>>
    ELSE IF Head(order) \in S THEN <<Head(order)>> \o SortedList(S, Tail(order))
    ELSE SortedList(S, Tail(order))

-----------------------------------------------------------------------------
(* The values of the API's enumerations.                                   *)

Severities == {"high", "medium", "low"}

SeverityList == <<"high", "medium", "low">>

PolicyTypes == {"anomaly", "audit_event", "config", "data", "iam", "network"}

PolicyTypeList == <<"anomaly", "audit_event", "config", "data", "iam", "network">>

AlertStatuses == {"open", "resolved", "dismissed", "snoozed"}

AlertStatusList == <<"open", "resolved", "dismissed", "snoozed">>

-----------------------------------------------------------------------------
(* Inputs: the policies, alerts and aggregates the result files can hold.  *)

PolicyIds == <<"p1", "p2", "p3">>

(* p1 and p3 carry the same name. *)
PolicyNames == <<"A", "B", "A">>

OpenAlertsCounts == <<0, 3, 5>>

StandardNames == <<"CIS", "HIPAA", "PCI">>

(* complianceMetadata: one entry per requirement section, so a standard    *)
(* can occur more than once.                                               *)
(* Option 1 stands for a policy without the key.                            *)
ComplianceOptions ==
    << <<>>, <<>>, <<"CIS">>, <<"PCI", "CIS", "PCI">>, <<"HIPAA", "CIS">> >>

PolicyRecord(i, s, c) ==
    LET n    == 9 * (i - 1) + 3 * (s - 1) + (c - 1)
        cm   == ComplianceOptions[(n % 5) + 1]
        base == [ policyId        |-> PolicyIds[i],
                  name            |-> PolicyNames[i],
                  enabled         |-> (n % 4) # 3,
                  severity        |-> SeverityList[s],
                  policyType      |-> PolicyTypeList[(n % 6) + 1],
                  policySubTypes  |-> IF (n % 5) < 2 THEN {"run", "build"} ELSE {"run"},
                  remediable      |-> (n % 2) = 0,
                  systemDefault   |-> ((n \div 3) % 2) = 0,
                  openAlertsCount |-> OpenAlertsCounts[c] ]
        upi  == IF ((n \div 3) % 2) = 0 THEN Put(base, "policyUpi", "PC-1") ELSE base
    IN  IF (n % 5) = 0 THEN upi
        ELSE Put(upi, "complianceMetadata", [k \in DOMAIN cm |-> [standardName |-> cm[k]]])

PolicyRecords ==
    { PolicyRecord(i, s, c) : i \in DOMAIN PolicyIds, s \in DOMAIN SeverityList,
                              c \in DOMAIN OpenAlertsCounts }

(* The policy endpoint lists every policy once: identifiers are unique.    *)
RECURSIVE ListsOfLen(_, _)
ListsOfLen(records, n) ==
    IF n = 0 THEN { <<>> }
    ELSE { Append(l, r) : l \in ListsOfLen(records, n - 1), r \in records }

ListsUpTo(records, n) == UNION { ListsOfLen(records, k) : k \in 0..n }

PolicyListsOver(records) ==
    { l \in ListsUpTo(records, MaxPolicies) :
        \A a, b \in DOMAIN l : a # b => l[a].policyId # l[b].policyId }

PolicyLists == PolicyListsOver(PolicyRecords)

(* The policies of the runs that vary the alerts. *)
FewPolicyRecords == { PolicyRecord(i, s, 2) : i \in DOMAIN PolicyIds, s \in {1, 3} }

FewPolicyLists == PolicyListsOver(FewPolicyRecords)

AlertReasons ==
    << "absent", "POLICY_DELETED", "RESOURCE_DELETED", "RESOURCE_UPDATED", "USER_DISMISSED" >>

(* p1 can be in the policy table; p9 is the identifier of a deleted policy. *)
AlertPolicyIds == <<"p1", "p9">>

AlertRecord(i, s, r) ==
    LET n      == 8 * (i - 1) + 2 * (s - 1) + r
        base   == [ policy |-> [ policyId      |-> AlertPolicyIds[i],
                                 systemDefault |-> (n % 3) # 0,
                                 policyType    |-> PolicyTypeList[(n % 6) + 1],
                                 remediable    |-> r = 1 ],
                    status |-> AlertStatusList[s] ]
        reason == AlertReasons[(n % 5) + 1]
    IN  IF reason = "absent" THEN base ELSE Put(base, "reason", reason)

AlertRecords ==
    { AlertRecord(i, s, r) : i \in DOMAIN AlertPolicyIds, s \in DOMAIN AlertStatusList,
                             r \in {0, 1} }

AlertLists == ListsUpTo(AlertRecords, MaxAlerts)

(* The alerts of the runs that vary the policies. *)
FewAlertRecords == { AlertRecord(i, 1, 0) : i \in DOMAIN AlertPolicyIds }

FewAlertLists == ListsUpTo(FewAlertRecords, MaxAlerts)

(* The answers of '/_support/alert/aggregate', one list per groupBy.       *)
AggregateByPolicy ==
    { <<>>,
      << [policyName |-> "A", alerts |-> 7] >>,
      << [policyName |-> "B", alerts |-> 2], [policyName |-> "Z", alerts |-> 4] >> }

AggregateByType ==
    { [k \in 1..6 |-> [policyType |-> PolicyTypeList[k], alerts |-> k]],
      [k \in 1..3 |-> [policyType |-> PolicyTypeList[k], alerts |-> k]] }

AggregateBySeverity ==
    { [k \in 1..3 |-> [severity |-> SeverityList[k], alerts |-> 2 * k]] }

AggregateByStatus ==
    { [k \in 1..4 |-> [status |-> AlertStatusList[k], alerts |-> 3 * k]],
      << [status |-> "resolved", alerts |-> 1] >> }

AggregateResponse(a, b, c, d) ==
    [ k \in {"by_policy", "by_policy_type", "by_policy_severity", "by_alert.status"} |->
        CASE k = "by_policy"          -> a
          [] k = "by_policy_type"     -> b
          [] k = "by_policy_severity" -> c
          [] k = "by_alert.status"    -> d ]

AggregateResponses ==
    { AggregateResponse(a, b, c, d) :
        a \in AggregateByPolicy, b \in AggregateByType,
        c \in AggregateBySeverity, d \in AggregateByStatus }

FewAggregateResponses ==
    { AggregateResponse(a, b, c, d) :
        a \in { << [policyName |-> "A", alerts |-> 7] >> }, b \in AggregateByType,
        c \in AggregateBySeverity, d \in AggregateByStatus }

(* json.load of the alerts file gives a list (direct API) or a dict        *)
(* (support API); type is what type(DATA['ALERTS']) tells apart.           *)
JsonList(l) == [type |-> "list", value |-> l]

JsonDict(d) == [type |-> "dict", value |-> d]

-----------------------------------------------------------------------------
(* The collector: make_api_call and the get_* functions.                   *)

ResultFiles ==
    {"ASSETS", "POLICIES", "ALERTS", "USERS", "ACCOUNTS", "GROUPS", "RULES", "INTEGRATIONS"}

(* A result file: the run that wrote it, the JSON type of its content, and *)
(* the content where the model follows it (the account list).              *)
FileOf(type, value) == [run |-> "this", type |-> type, value |-> value]

EarlierFile == [run |-> "earlier", type |-> "list", value |-> <<>>]

Remove(d, k) == [x \in (DOMAIN d) \ {k} |-> d[x]]

(* A delete that leaves the file where it is. *)
delete_file_if_exists_KeepsFile(fs, file_name) == fs

(* delete_file_if_exists *)
delete_file_if_exists(fs, file_name) == Remove(fs, file_name)

(* open(file_name, 'w'), write, close *)
write_file(fs, file_name, content) == Put(fs, file_name, content)

(* requests: resp.ok, a response that is not ok, or a RequestException. *)
ApiOutcomes == {"ok", "http_error", "transport_error"}

NoAccounts == [cloud |-> <<>>, project |-> <<>>, account_list |-> <<>>]

(* Before open_sheet: no writer, no sheet, no spreadsheet on disk. *)
NoWorkbook == [open |-> FALSE, sheets |-> <<>>, saved |-> FALSE]

(* The request of each category, direct and support. *)
Endpoint(category, support) ==
    CASE category = "LOGIN"        -> "POST /login"
      [] category = "ASSETS"       -> IF support THEN "POST /_support/timeline/resource"
                                                 ELSE "GET /v2/inventory"
      [] category = "POLICIES"     -> IF support THEN "POST /_support/policy" ELSE "GET /policy"
      [] category = "ALERTS"       -> IF support THEN "POST /_support/alert/aggregate"
                                                 ELSE "POST /alert/jobs"
      [] category = "STATUS"       -> "GET /alert/jobs/id/status"
      [] category = "DOWNLOAD"     -> "GET /alert/jobs/id/download"
      [] category = "USERS"        -> IF support THEN "POST /v2/_support/user" ELSE "GET /v2/user"
      [] category = "ACCOUNTS"     -> IF support THEN "POST /_support/cloud" ELSE "GET /cloud"
      [] category = "PROJECT"      -> IF support THEN "POST /_support/cloud/type/id/project"
                                                 ELSE "GET /cloud/type/id/project"
      [] category = "GROUPS"       -> IF support THEN "POST /_support/cloud/group"
                                                 ELSE "GET /cloud/group"
      [] category = "RULES"        -> IF support THEN "POST /_support/alert/rule"
                                                 ELSE "GET /v2/alert/rule"
      [] category = "INTEGRATIONS" -> IF support THEN "POST /_support/integration"
                                                 ELSE "GET /integration"

(* make_api_call: the request goes out with the headers of the moment. *)
Request(category) ==
    [ category |-> category,
      request  |-> Endpoint(category, CONFIG.SUPPORT_API_MODE),
      auth     |-> CONFIG.token ]

SendRequest(category) == calls' = Append(calls, Request(category))

(* sys.exit *)
Exit(code) == /\ exit_code' = code
              /\ pc' = "exited"

(* A make_api_call that reports the error and leaves with code 0. *)
ApiFailure_ExitZero == /\ out' = Append(out, "Error with API")
                       /\ Exit("0")

(* make_api_call, lines 168-174: the error is printed and the run exits 1. *)
ApiFailure == /\ out' = Append(out, "Error with API")
              /\ Exit("1")

(* get_prisma_login and lines 409-414 of collect_data. *)
Login ==
    /\ pc = "get_prisma_login"
    /\ SendRequest("LOGIN")
    /\ \E outcome \in ApiOutcomes, token \in BOOLEAN :
         IF outcome # "ok"
         THEN ApiFailure /\ UNCHANGED CONFIG
         ELSE IF ~token
         THEN /\ out' = Append(out, "Error with API Login")
              /\ Exit("1")
              /\ UNCHANGED CONFIG
         ELSE /\ CONFIG' = [CONFIG EXCEPT !.token = TRUE]
              /\ pc' = "get_assets"
              /\ UNCHANGED <<out, exit_code>>
    /\ UNCHANGED <<DATA, RESULTS, idx, exc, files, job, accounts, panda_writer>>

(* The collectors of one request: the file is deleted, the request made,   *)
(* the response written, and collect_data prints where it was saved.       *)
GetCategory(category, type, responses, here, next) ==
    /\ pc = here
    /\ SendRequest(category)
    /\ \E outcome \in ApiOutcomes, response \in responses :
         IF outcome # "ok"
         THEN /\ files' = delete_file_if_exists(files, category)
              /\ ApiFailure
         ELSE /\ files' = write_file(delete_file_if_exists(files, category), category,
                                     FileOf(type, response))
              /\ out' = Append(out, "Results saved as: " \o category)
              /\ pc' = next
              /\ UNCHANGED exit_code
    /\ UNCHANGED <<CONFIG, DATA, RESULTS, idx, exc, job, accounts, panda_writer>>

(* What the assets file holds: the inventory's summary, or the summary     *)
(* get_assets builds from the support timeline (lines 204-208).            *)
AssetsSummary == [summary |-> [totalResources |-> 1]]

(* Users, groups, rules and integrations: lists of items with 'enabled'. *)
EnabledLists == { <<>>, << [enabled |-> TRUE], [enabled |-> FALSE], [enabled |-> TRUE] >> }

GetAssets == GetCategory("ASSETS", "dict", {AssetsSummary}, "get_assets", "get_policies")

GetPolicies(policyLists) ==
    GetCategory("POLICIES", "list", policyLists, "get_policies", "get_alerts")

GetUsers == GetCategory("USERS", "list", {<<>>}, "get_users", "get_accounts")

GetAccountGroups ==
    GetCategory("GROUPS", "list", {<<>>}, "get_account_groups", "get_alert_rules")

GetAlertRules ==
    GetCategory("RULES", "list", EnabledLists, "get_alert_rules", "get_integrations")

GetIntegrations ==
    GetCategory("INTEGRATIONS", "list", {<<>>}, "get_integrations", "collected")

(* get_alerts returns to collect_data, which prints and goes on to users. *)
AlertsReturn(message) ==
    /\ out' = IF message = "" THEN Append(out, "Results saved as: ALERTS")
              ELSE Append(Append(out, message), "Results saved as: ALERTS")
    /\ pc' = "get_users"
    /\ UNCHANGED exit_code

(* get_alerts, support path (lines 243-252): one aggregate request per     *)
(* groupBy, idx counting them, then the dict is written.  The four answers *)
(* are read by nothing before the write: they are drawn there, together.   *)
GroupByFields == <<"policy.name", "policy.type", "policy.severity", "alert.status">>

AlertsAggregate(aggregates) ==
    /\ pc = "get_alerts"
    /\ CONFIG.SUPPORT_API_MODE
    /\ SendRequest("ALERTS")
    /\ \E outcome \in ApiOutcomes, api_response \in aggregates :
         IF outcome # "ok"
         THEN /\ files' = delete_file_if_exists(files, "ALERTS")
              /\ ApiFailure
              /\ UNCHANGED idx
         ELSE IF idx + 1 < Len(GroupByFields)
         THEN /\ files' = delete_file_if_exists(files, "ALERTS")
              /\ idx' = idx + 1
              /\ UNCHANGED <<pc, out, exit_code>>
         ELSE /\ files' = write_file(delete_file_if_exists(files, "ALERTS"), "ALERTS",
                                     FileOf("dict", api_response))
              /\ idx' = 0
              /\ AlertsReturn("")
    /\ UNCHANGED <<CONFIG, DATA, RESULTS, exc, job, accounts, panda_writer>>

(* get_alerts, direct path, lines 255-265: the job is submitted. *)
AlertsSubmit ==
    /\ pc = "get_alerts"
    /\ ~CONFIG.SUPPORT_API_MODE
    /\ SendRequest("ALERTS")
    /\ files' = delete_file_if_exists(files, "ALERTS")
    /\ \E outcome \in ApiOutcomes, id \in BOOLEAN :
         IF outcome # "ok"
         THEN ApiFailure
         ELSE IF ~id
         THEN AlertsReturn("Error with '/alert/jobs' API: 'id' missing from response")
         ELSE /\ pc' = "alert_job_status"
              /\ UNCHANGED <<out, exit_code>>
    /\ UNCHANGED <<CONFIG, DATA, RESULTS, idx, exc, job, accounts, panda_writer>>

(* What a status response can hold; "missing" is a response without 'status'. *)
JobAnswers == {"IN_PROGRESS", "READY_TO_DOWNLOAD", "FAILED", "missing"}

InProgressAnswers(j) == Cardinality({ k \in DOMAIN j : j[k] = "IN_PROGRESS" })

(* A poller that takes IN_PROGRESS for the end of the job. *)
AfterStatus_DownloadEarly(answer) ==
    CASE answer = "missing"           -> "return"
      [] answer = "IN_PROGRESS"       -> "download"
      [] answer = "READY_TO_DOWNLOAD" -> "download"
      [] OTHER                        -> "report"

(* A poller that downloads whatever ended the job. *)
AfterStatus_DownloadAny(answer) ==
    CASE answer = "missing"           -> "return"
      [] answer = "IN_PROGRESS"       -> "poll"
      [] OTHER                        -> "download"

(* A poller that gives the job up at the first IN_PROGRESS. *)
AfterStatus_GiveUp(answer) ==
    CASE answer = "missing"           -> "return"
      [] answer = "READY_TO_DOWNLOAD" -> "download"
      [] OTHER                        -> "report"

(* What get_alerts does with a status answer: lines 268/279 (no 'status'), *)
(* 272 (the loop goes on), 283 (download) and 288 (anything else).         *)
AfterStatus(answer) ==
    CASE answer = "missing"           -> "return"
      [] answer = "IN_PROGRESS"       -> "poll"
      [] answer = "READY_TO_DOWNLOAD" -> "download"
      [] OTHER                        -> "report"

(* get_alerts, lines 266-283 and 288-289: one status request, the one      *)
(* before the loop or the one of a pass of the loop, and what follows the  *)
(* answer.                                                                 *)
AlertsStatus ==
    /\ pc = "alert_job_status"
    /\ SendRequest("STATUS")
    /\ \E outcome \in ApiOutcomes, answer \in JobAnswers :
         IF outcome # "ok"
         THEN ApiFailure /\ UNCHANGED job
         ELSE /\ answer = "IN_PROGRESS" => InProgressAnswers(job) < MaxPolls
              /\ job' = Append(job, answer)
              /\ CASE AfterStatus(answer) = "return" ->
                        AlertsReturn("Error with '/alert/jobs' API: 'status' missing from response")
                   [] AfterStatus(answer) = "poll" ->
                        UNCHANGED <<pc, out, exit_code>>
                   [] AfterStatus(answer) = "download" ->
                        pc' = "alert_job_download" /\ UNCHANGED <<out, exit_code>>
                   [] OTHER ->
                        AlertsReturn("Error with '/alert/jobs' API: 'status' in response not in ('IN_PROGRESS','READY_TO_DOWNLOAD')")
    /\ UNCHANGED <<CONFIG, DATA, RESULTS, idx, exc, files, accounts, panda_writer>>

(* get_alerts, lines 284-287: the download and the write of the file. *)
AlertsDownload(alertLists) ==
    /\ pc = "alert_job_download"
    /\ SendRequest("DOWNLOAD")
    /\ \E outcome \in ApiOutcomes, api_response \in alertLists :
         IF outcome # "ok"
         THEN ApiFailure /\ UNCHANGED files
         ELSE /\ files' = write_file(files, "ALERTS", FileOf("list", api_response))
              /\ AlertsReturn("")
    /\ UNCHANGED <<CONFIG, DATA, RESULTS, idx, exc, job, accounts, panda_writer>>

(* A flattening that copies the parent's count onto every child. *)
parse_account_children_EveryChild(account, children) ==
    [ k \in DOMAIN children |->
        Put(children[k], "numberOfChildAccounts", account.numberOfChildAccounts) ]

(* parse_account_children *)
parse_account_children(account, children) ==
    [ k \in DOMAIN children |->
        IF account.accountId = children[k].accountId
        THEN Put(children[k], "numberOfChildAccounts", account.numberOfChildAccounts)
        ELSE children[k] ]

(* The accounts whose children get_accounts asks for. *)
HasChildren(account, support) ==
    IF support THEN account.numberOfChildAccounts > 0
    ELSE account.accountType = "organization"

(* get_accounts, lines 323-329 and 337-338: the account request. *)
AccountsRequest(accountLists) ==
    /\ pc = "get_accounts"
    /\ SendRequest("ACCOUNTS")
    /\ files' = delete_file_if_exists(files, "ACCOUNTS")
    /\ \E outcome \in ApiOutcomes, response \in accountLists :
         IF outcome # "ok"
         THEN ApiFailure /\ UNCHANGED <<accounts, idx>>
         ELSE /\ accounts' = [cloud |-> response, project |-> <<>>, account_list |-> <<>>]
              /\ idx' = 1
              /\ pc' = "get_accounts_loop"
              /\ UNCHANGED <<out, exit_code>>
    /\ UNCHANGED <<CONFIG, DATA, RESULTS, exc, job, panda_writer>>

(* One pass of the loop over the accounts (lines 330-335 and 339-344). *)
AccountStep(childLists) ==
    /\ pc = "get_accounts_loop"
    /\ idx <= Len(accounts.cloud)
    /\ LET account == accounts.cloud[idx]
       IN  IF HasChildren(account, CONFIG.SUPPORT_API_MODE)
           THEN /\ SendRequest("PROJECT")
                /\ \E outcome \in ApiOutcomes, children \in childLists :
                     IF outcome # "ok"
                     THEN ApiFailure /\ UNCHANGED <<accounts, idx>>
                     ELSE /\ accounts' =
                               [accounts EXCEPT
                                  !.project = Append(@, children),
                                  !.account_list = @ \o parse_account_children(account, children)]
                          /\ idx' = idx + 1
                          /\ UNCHANGED <<pc, out, exit_code>>
           ELSE /\ accounts' = [accounts EXCEPT !.account_list = Append(@, account)]
                /\ idx' = idx + 1
                /\ UNCHANGED <<calls, pc, out, exit_code>>
    /\ UNCHANGED <<CONFIG, DATA, RESULTS, exc, files, job, panda_writer>>

(* get_accounts, lines 345-347: account_list is written. *)
AccountsWrite ==
    /\ pc = "get_accounts_loop"
    /\ idx > Len(accounts.cloud)
    /\ files' = write_file(files, "ACCOUNTS", FileOf("list", accounts.account_list))
    /\ out' = Append(out, "Results saved as: ACCOUNTS")
    /\ pc' = "get_account_groups"
    /\ idx' = 0
    /\ UNCHANGED <<CONFIG, DATA, RESULTS, exc, calls, exit_code, job, accounts, panda_writer>>

(* A top level that goes on to process whatever the mode. *)
AfterCollect_ThenProcess ==
    /\ pc = "collected"
    /\ pc' = "read_collected_data"
    /\ UNCHANGED <<CONFIG, DATA, RESULTS, idx, exc, calls, files, exit_code, out, job, accounts,
                   panda_writer>>

(* Lines 729-731: a collect run ends here with code 0; an auto run goes on *)
(* to read the files.                                                      *)
AfterCollect ==
    /\ pc = "collected"
    /\ IF CONFIG.RUN_MODE = "collect"
       THEN Exit("0")
       ELSE pc' = "read_collected_data" /\ UNCHANGED exit_code
    /\ UNCHANGED <<CONFIG, DATA, RESULTS, idx, exc, calls, files, out, job, accounts, panda_writer>>

-----------------------------------------------------------------------------
(* configure and read_collected_data, as the script's top level runs them. *)

(* The result files in the order CONFIG['RESULT_FILES'] lists them. *)
ResultFileList ==
    <<"ASSETS", "POLICIES", "ALERTS", "USERS", "ACCOUNTS", "GROUPS", "RULES", "INTEGRATIONS">>

(* configure, lines 103-112: what a collecting run requires, in order. *)
RequiredArguments ==
    << <<"PRISMA_API_ENDPOINT", "Error: '--url' is required">>,
       <<"PRISMA_ACCESS_KEY",   "Error: '--access_key' is required">>,
       <<"PRISMA_SECRET_KEY",   "Error: '--secret_key' is required">> >>

(* The first required argument that is missing, 0 when none is. *)
FirstMissingArgument(config) ==
    IF \A k \in DOMAIN RequiredArguments : config[RequiredArguments[k][1]] THEN 0
    ELSE CHOOSE k \in DOMAIN RequiredArguments :
            /\ ~config[RequiredArguments[k][1]]
            /\ \A j \in 1..(k - 1) : config[RequiredArguments[j][1]]

(* A configure that asks for the credentials in every mode. *)
NeedsCredentials_EveryMode(mode) == TRUE

(* Line 103: the modes that need the URL and the keys. *)
NeedsCredentials(mode) == mode \in {"auto", "collect"}

(* configure (lines 73-113) and the branch of lines 725 and 733. *)
Configure ==
    /\ pc = "configure"
    /\ LET missing == FirstMissingArgument(CONFIG)
       IN  IF NeedsCredentials(CONFIG.RUN_MODE) /\ missing # 0
           THEN /\ out' = Append(out, RequiredArguments[missing][2])
                /\ Exit("1")
           ELSE /\ pc' = IF CONFIG.RUN_MODE \in {"collect", "auto"}
                         THEN "get_prisma_login" ELSE "read_collected_data"
                /\ UNCHANGED <<out, exit_code>>
    /\ UNCHANGED <<CONFIG, DATA, RESULTS, idx, exc, calls, files, job, accounts, panda_writer>>

(* json.load of a result file; the alerts keep their JSON type apart. *)
LoadFile(category, file) ==
    IF category = "ALERTS"
    THEN (IF file.type = "dict" THEN JsonDict(file.value) ELSE JsonList(file.value))
    ELSE file.value

(* The position in ResultFileList of the first file that is not on disk,   *)
(* 0 when all are.                                                         *)
FirstMissingFile(fs) ==
    IF \A k \in DOMAIN ResultFileList : ResultFileList[k] \in DOMAIN fs THEN 0
    ELSE CHOOSE k \in DOMAIN ResultFileList :
            /\ ResultFileList[k] \notin DOMAIN fs
            /\ \A j \in 1..(k - 1) : ResultFileList[j] \in DOMAIN fs

(* A reader that takes a file that is not there for an empty list. *)
read_collected_data_EmptyIfMissing(fs) ==
    [ loaded  |-> [ f \in ResultFiles |->
                      LoadFile(f, IF f \in DOMAIN fs THEN fs[f] ELSE EarlierFile) ],
      missing |-> 0 ]

(* read_collected_data: the files loaded, and the one found missing. *)
read_collected_data(fs) ==
    LET missing == FirstMissingFile(fs)
        upTo    == IF missing = 0 THEN Len(ResultFileList) ELSE missing - 1
    IN  [ loaded  |-> [ f \in { ResultFileList[k] : k \in 1..upTo } |-> LoadFile(f, fs[f]) ],
          missing |-> missing ]

(* read_collected_data (lines 453-459) and lines 733-737 of the top level: *)
(* a dict of alerts turns SUPPORT_API_MODE on.                             *)
ReadCollectedData ==
    /\ pc = "read_collected_data"
    /\ LET r == read_collected_data(files)
       IN  /\ DATA' = r.loaded
           /\ IF r.missing # 0
              THEN /\ out' = Append(out, "Error: Query result file does not exist: "
                                         \o ResultFileList[r.missing])
                   /\ Exit("1")
                   /\ UNCHANGED CONFIG
              ELSE /\ CONFIG' = IF r.loaded.ALERTS.type = "dict"
                                THEN [CONFIG EXCEPT !.SUPPORT_API_MODE = TRUE] ELSE CONFIG
                   /\ pc' = "process_collected_data"
                   /\ UNCHANGED <<out, exit_code>>
    /\ UNCHANGED <<RESULTS, idx, exc, calls, files, job, accounts, panda_writer>>

-----------------------------------------------------------------------------
(* process_collected_data: the dictionaries it seeds.                      *)

alert_counts_from_policies_seed ==
    [ open |-> 0, open_high |-> 0, open_medium |-> 0, open_low |-> 0,
      anomaly |-> 0, audit_event |-> 0, config |-> 0, data |-> 0, iam |-> 0,
      network |-> 0, remediable |-> 0, shiftable |-> 0, custom |-> 0, default |-> 0 ]

policy_counts_from_alerts_seed ==
    [ high |-> 0, medium |-> 0, low |-> 0,
      anomaly |-> 0, audit_event |-> 0, config |-> 0, data |-> 0, iam |-> 0,
      network |-> 0, custom |-> 0, default |-> 0 ]

alert_totals_by_alert_seed ==
    [ dismissed |-> 0, dismissed_high |-> 0, dismissed_medium |-> 0, dismissed_low |-> 0,
      open |-> 0, open_high |-> 0, open_medium |-> 0, open_low |-> 0,
      policy_deleted |-> 0, policy_disabled |-> 0,
      resolved |-> 0, resolved_high |-> 0, resolved_medium |-> 0, resolved_low |-> 0,
      resolved_deleted |-> 0, resolved_updated |-> 0,
      remediable |-> 0, remediable_open |-> 0, remediable_resolved |-> 0,
      snoozed |-> 0, snoozed_high |-> 0, snoozed_medium |-> 0, snoozed_low |-> 0,
      shiftable |-> 0,
      anomaly |-> 0, audit_event |-> 0, config |-> 0, data |-> 0, iam |-> 0,
      network |-> 0, custom |-> 0, default |-> 0 ]

severity_counts_seed == [high |-> 0, medium |-> 0, low |-> 0]

-----------------------------------------------------------------------------
(* process_aggregated_alerts.                                              *)

RECURSIVE CollectItems(_, _, _)
CollectItems(d, items, keyField) ==
    IF items = <<>> THEN d
    ELSE CollectItems(Put(d, Head(items)[keyField], Head(items).alerts), Tail(items), keyField)

process_aggregated_alerts(alerts) ==
    [ policy   |-> CollectItems(EmptyDict, alerts["by_policy"], "policyName"),
      type     |-> CollectItems([anomaly |-> 0, audit_event |-> 0, config |-> 0, data |-> 0, iam |-> 0],
                                alerts["by_policy_type"], "policyType"),
      severity |-> CollectItems(severity_counts_seed, alerts["by_policy_severity"], "severity"),
      status   |-> CollectItems([open |-> 0, resolved |-> 0], alerts["by_alert.status"], "status") ]

-----------------------------------------------------------------------------
(* process_policies: one pass of its loop over this_policy.                *)

(* The alertCount the loop stores for this_policy. *)
AlertCountOf(R, support, this_policy) ==
    IF support
    THEN IF this_policy.name \in DOMAIN R["aggregated_alerts_by"].policy
         THEN R["aggregated_alerts_by"].policy[this_policy.name]
         ELSE 0
    ELSE this_policy.openAlertsCount

(* A bucket name that files low under medium. *)
SeverityBucket_LowAsMedium(severity) ==
    IF severity = "low" THEN "open_medium" ELSE "open_" \o severity

(* 'open_%s' % this_policy['severity'] *)
SeverityBucket(severity) == "open_" \o severity

(* Lines 599-606: the increments the flags of this_policy choose. *)
FlagIncrements(this_policy, c) ==
    (IF this_policy.remediable THEN << Increment(600, "remediable", c) >> ELSE <<>>)
    \o (IF "build" \in this_policy.policySubTypes
        THEN << Increment(602, "shiftable", c) >> ELSE <<>>)
    \o << IF this_policy.systemDefault = TRUE
          THEN Increment(604, "default", c) ELSE Increment(606, "custom", c) >>

(* A count that adds one per policy to the severity bucket. *)
CountPolicy_OnePerPolicy(counts, this_policy, c) ==
    LET r == AddEach(counts,
                     << Increment(596, "open", c),
                        Increment(597, "open_" \o this_policy.severity, 1),
                        Increment(598, this_policy.policyType, c) >>
                     \o FlagIncrements(this_policy, c))
    IN  [counts |-> r.d, raised |-> r.raised]

(* A count that files under its type the alerts of default policies only. *)
CountPolicy_TypeOfDefaultOnly(counts, this_policy, c) ==
    LET r == AddEach(counts,
                     << Increment(596, "open", c),
                        Increment(597, "open_" \o this_policy.severity, c) >>
                     \o (IF this_policy.systemDefault = TRUE
                         THEN << Increment(598, this_policy.policyType, c) >> ELSE <<>>)
                     \o FlagIncrements(this_policy, c))
    IN  [counts |-> r.d, raised |-> r.raised]

(* Lines 596-606: alert_counts_from_policies after this_policy, whose      *)
(* alertCount is c, or as the statement that raised KeyError found it.     *)
CountPolicy(counts, this_policy, c) ==
    LET r == AddEach(counts,
                     << Increment(596, "open", c),
                        Increment(597, SeverityBucket(this_policy.severity), c),
                        Increment(598, this_policy.policyType, c) >>
                     \o FlagIncrements(this_policy, c))
    IN  [counts |-> r.d, raised |-> r.raised]

(* The sorted list of the distinct standard names of this_policy. *)
ComplianceStandardsOf(this_policy) ==
    IF "complianceMetadata" \in DOMAIN this_policy
    THEN SortedList({ this_policy.complianceMetadata[k].standardName :
                        k \in DOMAIN this_policy.complianceMetadata }, StandardNames)
    ELSE <<>>

(* compliance_standards_counts_from_policies after this_policy. *)
RECURSIVE AttributeStandards(_, _, _, _)
AttributeStandards(rollup, names, severity, n) ==
    IF names = <<>> THEN rollup
    ELSE LET seeded == SetDefault(rollup, Head(names), severity_counts_seed)
         IN  AttributeStandards([seeded EXCEPT ![Head(names)][severity] = @ + n],
                                Tail(names), severity, n)

(* Lines 577-595: the entry of this_policy before its counts are added;   *)
(* complianceStandards is set after them (lines 608-615).                  *)
PolicyEntry(this_policy, c) ==
    [ policyName          |-> this_policy.name,
      policyEnabled       |-> this_policy.enabled,
      policySeverity      |-> this_policy.severity,
      policyType          |-> this_policy.policyType,
      policyShiftable     |-> "build" \in this_policy.policySubTypes,
      policyRemediable    |-> this_policy.remediable,
      policySystemDefault |-> this_policy.systemDefault,
      policyUpi           |-> IF "policyUpi" \in DOMAIN this_policy
                              THEN this_policy.policyUpi ELSE "CUSTOM",
      alertCount          |-> c ]

(* One pass of the loop of process_policies.  A KeyError of lines 596-606  *)
(* ends it before the standards of the policy are looked at; past line 597 *)
(* the severity is one of the three of line 617.                           *)
process_policy(R, support, this_policy) ==
    LET c      == AlertCountOf(R, support, this_policy)
        counts == CountPolicy(R["alert_counts_from_policies"], this_policy, c)
        R1     == [R EXCEPT !["policies_by_name"] =
                                Put(@, this_policy.name, [policyId |-> this_policy.policyId]),
                            !["policies"] =
                                Put(@, this_policy.policyId, PolicyEntry(this_policy, c)),
                            !["alert_counts_from_policies"] = counts.counts]
    IN  IF counts.raised # NoException
        THEN [ R |-> R1, raised |-> counts.raised ]
        ELSE [ R |-> [R1 EXCEPT
                        !["policies"][this_policy.policyId] =
                            Put(@, "complianceStandards", ComplianceStandardsOf(this_policy)),
                        !["compliance_standards_counts_from_policies"] =
                            AttributeStandards(@, ComplianceStandardsOf(this_policy),
                                               this_policy.severity, c)],
               raised |-> NoException ]

-----------------------------------------------------------------------------
(* process_alerts.                                                         *)

(* The module-level names bound when the functions run (the imports, the  *)
(* functions, args, CONFIG, DATA, RESULTS).  A function's parameter is not *)
(* among them: 'policies' is local to process_policies.                    *)
GlobalNames ==
    { "args", "CONFIG", "DATA", "RESULTS", "output", "process_policies", "process_alerts",
      "process_summary", "process_aggregated_alerts", "process_collected_data" }

(* A pass that counts nothing before the policy is looked up. *)
CountAlert_AfterLookup(totals, this_alert) == [totals |-> totals, raised |-> NoException]

(* Lines 643-656: the counters an alert feeds without its policy.  A       *)
(* remediable alert adds to 'remediable_<status>', seeded for open and     *)
(* resolved only.                                                          *)
CountAlert(totals, this_alert) ==
    LET r == AddEach(totals,
                     << IF this_alert.policy.systemDefault = TRUE
                        THEN Increment(644, "default", 1) ELSE Increment(646, "custom", 1),
                        Increment(647, this_alert.policy.policyType, 1) >>
                     \o (IF this_alert.policy.remediable
                         THEN << Increment(649, "remediable", 1),
                                 Increment(650, "remediable_" \o this_alert.status, 1) >>
                         ELSE <<>>)
                     \o << Increment(651, this_alert.status, 1) >>
                     \o (IF "reason" \in DOMAIN this_alert /\ this_alert.reason = "RESOURCE_DELETED"
                         THEN << Increment(654, "resolved_deleted", 1) >> ELSE <<>>)
                     \o (IF "reason" \in DOMAIN this_alert /\ this_alert.reason = "RESOURCE_UPDATED"
                         THEN << Increment(656, "resolved_updated", 1) >> ELSE <<>>))
    IN  [totals |-> r.d, raised |-> r.raised]

(* Line 658, 'this_policy_id in policies': the name is looked up among the *)
(* globals.  It is not bound, so the statements after it (lines 659-684)   *)
(* are never reached.                                                      *)
LookupPolicies == IF "policies" \in GlobalNames THEN NoException ELSE Raised("NameError", 658)

(* One pass of the loop of the direct path over this_alert. *)
process_alert(R, this_alert) ==
    LET local == CountAlert(R["alert_totals_by_alert"], this_alert)
    IN  [ R      |-> [R EXCEPT !["alert_totals_by_alert"] = local.totals],
          raised |-> IF local.raised # NoException THEN local.raised ELSE LookupPolicies ]

(* Lines 629-639, the support path: the totals are copied key by key. *)
process_alerts_support(R) ==
    LET agg == R["aggregated_alerts_by"]
        p1  == [ high |-> agg.severity["high"], medium |-> agg.severity["medium"],
                 low |-> agg.severity["low"],
                 anomaly |-> agg.type["anomaly"], audit_event |-> agg.type["audit_event"],
                 config |-> agg.type["config"], data |-> agg.type["data"],
                 iam |-> agg.type["iam"] ]
    IN  IF "network" \notin DOMAIN agg.type
        THEN [ R      |-> [R EXCEPT !["policy_totals_by_alert"] = p1],
               raised |-> Raised("KeyError", 637) ]
        ELSE [ R      |-> [R EXCEPT !["policy_totals_by_alert"] =
                                        Put(p1, "network", agg.type["network"]),
                                    !["alert_totals_by_alert"] =
                                        [@ EXCEPT !["open"] = agg.status["open"],
                                                  !["resolved"] = agg.status["resolved"]]],
               raised |-> NoException ]

-----------------------------------------------------------------------------
(* process_summary.                                                        *)

process_summary(R, support, D) ==
    LET fromPolicies == R["compliance_standards_counts_from_policies"]
        s1 == [ asset_count |-> D.ASSETS.summary.totalResources,
                count_of_compliance_standards_with_alerts_from_policies |->
                    Cardinality({ k \in DOMAIN fromPolicies :
                                    fromPolicies[k] # severity_counts_seed }) ]
    IN  IF support
        THEN Put(Put(s1, "alert_count", R["aggregated_alerts_by"].status["open"]),
                 "count_of_policies_with_alerts_from_policies",
                 Cardinality(DOMAIN R["aggregated_alerts_by"].policy))
        ELSE Put(Put(Put(Put(s1, "alert_count", Len(D.ALERTS.value)),
                 "count_of_policies_with_alerts_from_policies",
                 Cardinality({ k \in DOMAIN R["policies"] : R["policies"][k].alertCount # 0 })),
                 "count_of_compliance_standards_with_alerts_from_alerts",
                 Cardinality(DOMAIN R["compliance_standards_counts_from_alerts"])),
                 "count_of_policies_with_alerts_from_alerts",
                 Cardinality(DOMAIN R["policy_counts_from_alerts"]))

-----------------------------------------------------------------------------
(* The aggregation as steps of process_collected_data.                     *)

Crash(e) == /\ pc' = "crashed"
            /\ exc' = e

(* Lines 466-487: the aggregate of the support path, then the seeds of the *)
(* policy pass.  Subscripting a list with 'by_policy' is a TypeError.      *)
BeginProcess ==
    /\ pc = "process_collected_data"
    /\ IF CONFIG.SUPPORT_API_MODE /\ DATA.ALERTS.type # "dict"
       THEN /\ Crash(Raised("TypeError", 557))
            /\ UNCHANGED <<RESULTS, idx>>
       ELSE /\ RESULTS' =
                 LET R0 == IF CONFIG.SUPPORT_API_MODE
                           THEN Put(RESULTS, "aggregated_alerts_by",
                                    process_aggregated_alerts(DATA.ALERTS.value))
                           ELSE RESULTS
                 IN  Put(Put(Put(Put(R0, "policies_by_name", EmptyDict),
                                 "policies", EmptyDict),
                             "compliance_standards_counts_from_policies", EmptyDict),
                         "alert_counts_from_policies", alert_counts_from_policies_seed)
            /\ pc' = "process_policies"
            /\ idx' = 1
            /\ UNCHANGED exc
    /\ UNCHANGED <<CONFIG, DATA>>
    /\ UNCHANGED collectVars

(* Lines 574-618 for DATA['POLICIES'][idx]. *)
ProcessPolicy ==
    /\ pc = "process_policies"
    /\ idx <= Len(DATA.POLICIES)
    /\ LET r == process_policy(RESULTS, CONFIG.SUPPORT_API_MODE, DATA.POLICIES[idx])
       IN  /\ RESULTS' = r.R
           /\ IF r.raised # NoException
              THEN Crash(r.raised) /\ UNCHANGED idx
              ELSE idx' = idx + 1 /\ UNCHANGED <<pc, exc>>
    /\ UNCHANGED <<CONFIG, DATA>>
    /\ UNCHANGED collectVars

(* Lines 490-539: the seeds of the alert pass. *)
BeginAlerts ==
    /\ pc = "process_policies"
    /\ idx > Len(DATA.POLICIES)
    /\ RESULTS' = Put(Put(Put(Put(Put(RESULTS,
                      "compliance_standards_counts_from_alerts", EmptyDict),
                      "policy_counts_from_alerts", policy_counts_from_alerts_seed),
                      "policy_totals_by_alert", EmptyDict),
                      "alert_totals_by_alert", alert_totals_by_alert_seed),
                      "policies_deleted", EmptyDict)
    /\ pc' = "process_alerts"
    /\ idx' = 1
    /\ UNCHANGED <<CONFIG, DATA, exc>>
    /\ UNCHANGED collectVars

(* Lines 629-639. *)
ProcessAlertsSupport ==
    /\ pc = "process_alerts"
    /\ CONFIG.SUPPORT_API_MODE
    /\ LET r == process_alerts_support(RESULTS)
       IN  /\ RESULTS' = r.R
           /\ IF r.raised # NoException
              THEN Crash(r.raised)
              ELSE pc' = "process_summary" /\ UNCHANGED exc
    /\ UNCHANGED <<CONFIG, DATA, idx>>
    /\ UNCHANGED collectVars

(* Lines 641-684 for DATA['ALERTS'][idx]; idx stays on the alert that raised. *)
ProcessAlert ==
    /\ pc = "process_alerts"
    /\ ~CONFIG.SUPPORT_API_MODE
    /\ idx <= Len(DATA.ALERTS.value)
    /\ LET r == process_alert(RESULTS, DATA.ALERTS.value[idx])
       IN  /\ RESULTS' = r.R
           /\ IF r.raised # NoException
              THEN Crash(r.raised) /\ UNCHANGED idx
              ELSE idx' = idx + 1 /\ UNCHANGED <<pc, exc>>
    /\ UNCHANGED <<CONFIG, DATA>>
    /\ UNCHANGED collectVars

(* Lines 542-543 and 690-700, after the alert pass. *)
ProcessSummary ==
    /\ \/ pc = "process_summary"
       \/ pc = "process_alerts" /\ ~CONFIG.SUPPORT_API_MODE /\ idx > Len(DATA.ALERTS.value)
    /\ RESULTS' = Put(RESULTS, "summary", process_summary(RESULTS, CONFIG.SUPPORT_API_MODE, DATA))
    /\ pc' = "output"
    /\ UNCHANGED <<CONFIG, DATA, idx, exc>>
    /\ UNCHANGED collectVars

-----------------------------------------------------------------------------
(* The report: the sheets the top level builds after the aggregation       *)
(* (lines 746-931).  A row is a tuple of cells; a sheet is a name and its  *)
(* rows.  pandas and xlsxwriter are taken to do what the calls ask.        *)

(* open_sheet *)
open_sheet == [open |-> TRUE, sheets |-> <<>>, saved |-> FALSE]

(* write_sheet *)
write_sheet(writer, this_sheet_name, rows) ==
    [writer EXCEPT !.sheets = Append(@, [name |-> this_sheet_name, rows |-> rows])]

(* save_sheet *)
save_sheet(writer) == [writer EXCEPT !.saved = TRUE]

(* sum(x.get(field) == value for x in items) *)
CountWhere(items, field, value) ==
    Cardinality({ k \in DOMAIN items : field \in DOMAIN items[k] /\ items[k][field] = value })

Blank == <<"", "">>

(* CONFIG['TIME_RANGE_LABEL'] with the defaults of the arguments. *)
TimeRangeRows == << "", "", <<"Time Range: Past 1 Week", "">> >>

(* Lines 751-783. *)
UtilizationRows(R, D) ==
    << <<"Number of Assets", R["summary"]["asset_count"]>>, Blank,
       <<"Number of Cloud Accounts", Len(D.ACCOUNTS)>>, Blank,
       <<"Cloud Accounts Disabled", CountWhere(D.ACCOUNTS, "enabled", FALSE)>>,
       <<"Cloud Accounts Enabled", CountWhere(D.ACCOUNTS, "enabled", TRUE)>>, Blank,
       <<"Number of Cloud Account Groups", Len(D.GROUPS)>>, Blank,
       <<"Number of Alert Rules", Len(D.RULES)>>, Blank,
       <<"Alert Rules Disabled", CountWhere(D.RULES, "enabled", FALSE)>>,
       <<"Alert Rules Enabled", CountWhere(D.RULES, "enabled", TRUE)>>, Blank,
       <<"Number of Integrations", Len(D.INTEGRATIONS)>>, Blank,
       <<"Integrations Disabled", CountWhere(D.INTEGRATIONS, "enabled", FALSE)>>,
       <<"Integrations Enabled", CountWhere(D.INTEGRATIONS, "enabled", TRUE)>>, Blank,
       <<"Number of Policies", Len(D.POLICIES)>>, Blank,
       <<"Policies Disabled", CountWhere(D.POLICIES, "enabled", FALSE)>>,
       <<"Policies Enabled", CountWhere(D.POLICIES, "enabled", TRUE)>>, Blank,
       <<"Policies Custom", CountWhere(D.POLICIES, "systemDefault", FALSE)>>,
       <<"Policies Default", CountWhere(D.POLICIES, "systemDefault", TRUE)>>, Blank,
       <<"Number of Users", Len(D.USERS)>>, Blank,
       <<"Users Disabled", CountWhere(D.USERS, "enabled", FALSE)>>,
       <<"Users Enabled", CountWhere(D.USERS, "enabled", TRUE)>> >>

(* sorted() of the names that can key a dictionary of the report:          *)
(* upper case sorts before lower case.                                     *)
NameOrder ==
    << "A", "B", "CIS", "HIPAA", "PCI", "Z",
       "anomaly", "audit_event", "config", "custom", "data", "default", "high", "iam",
       "low", "medium", "network", "p1", "p2", "p3", "p9" >>

sorted(d) == SortedList(DOMAIN d, NameOrder)

(* Lines 788-794 and 798-804: the header, then a row per standard. *)
StandardRows(rollup) ==
    << <<"Compliance Standard", "Alerts High", "Alerts Medium", "Alerts Low">> >>
    \o [ k \in DOMAIN sorted(rollup) |->
           LET compliance_standard_name == sorted(rollup)[k]
           IN  << compliance_standard_name,
                  rollup[compliance_standard_name]["high"],
                  rollup[compliance_standard_name]["medium"],
                  rollup[compliance_standard_name]["low"] >> ]

(* ','.join(map(str, names)) *)
RECURSIVE Join(_)
Join(names) ==
    IF names = <<>> THEN ""
    ELSE IF Len(names) = 1 THEN names[1]
    ELSE names[1] \o "," \o Join(Tail(names))

PolicyHeader ==
    << "Policy", "Enabled", "UPI", "Severity", "Type", "With IAC", "With Remediation",
       "Alert Count", "Compliance Standards" >>

(* Lines 815-824 and 831-840: the row of a policy. *)
PolicyRow(R, policy_name, this_policy_id, policy_alert_count) ==
    LET policy == R["policies"][this_policy_id]
    IN  << policy_name, policy.policyEnabled, policy.policyUpi, policy.policySeverity,
           policy.policyType, policy.policyRemediable, policy.policyRemediable,
           policy_alert_count, Join(policy.complianceStandards) >>

(* A table with a row per policy identifier. *)
PolicyRows_OnePerId(R) ==
    << PolicyHeader >>
    \o [ k \in DOMAIN sorted(R["policies"]) |->
           LET this_policy_id == sorted(R["policies"])[k]
           IN  PolicyRow(R, R["policies"][this_policy_id].policyName, this_policy_id,
                         R["policies"][this_policy_id].alertCount) ]

(* Lines 812-824: the header, then a row per key of policies_by_name. *)
PolicyRows(R) ==
    << PolicyHeader >>
    \o [ k \in DOMAIN sorted(R["policies_by_name"]) |->
           LET policy_name    == sorted(R["policies_by_name"])[k]
               this_policy_id == R["policies_by_name"][policy_name].policyId
           IN  PolicyRow(R, policy_name, this_policy_id,
                         R["policies"][this_policy_id].alertCount) ]

(* Lines 828-840.  The keys of policy_counts_from_alerts the seeds of      *)
(* lines 491-502 put there hold an integer: ['policyId'] on it is a        *)
(* TypeError.                                                              *)
AlertPolicyRows(R) ==
    LET counts == R["policy_counts_from_alerts"]
    IN  IF \E k \in DOMAIN counts : k \in DOMAIN policy_counts_from_alerts_seed
        THEN [ rows |-> << PolicyHeader >>, raised |-> Raised("TypeError", 831) ]
        ELSE [ rows |-> << PolicyHeader >>
                        \o [ k \in DOMAIN sorted(counts) |->
                               LET policy_name == sorted(counts)[k]
                               IN  PolicyRow(R, policy_name, counts[policy_name].policyId,
                                             counts[policy_name].alertCount) ]
                        \o TimeRangeRows,
               raised |-> NoException ]

(* A row of a summary sheet for each label: the counter it shows. *)
SummaryRows(counts, labels) ==
    [ k \in DOMAIN labels |-> << labels[k][1], counts[labels[k][2]] >> ]

(* Lines 848-870. *)
OpenAlertsSummaryRows(R) ==
    SummaryRows(R["summary"],
        << <<"Number of Compliance Standards with Open Alerts",
             "count_of_compliance_standards_with_alerts_from_policies">>,
           <<"Number of Policies with Open Alerts",
             "count_of_policies_with_alerts_from_policies">> >>)
    \o << Blank >>
    \o SummaryRows(R["alert_counts_from_policies"], << <<"Open Alerts", "open">> >>)
    \o << Blank >>
    \o SummaryRows(R["alert_counts_from_policies"],
        << <<"Open Alerts High-Severity", "open_high">>,
           <<"Open Alerts Medium-Severity", "open_medium">>,
           <<"Open Alerts Low-Severity", "open_low">> >>)
    \o << Blank >>
    \o SummaryRows(R["alert_counts_from_policies"],
        << <<"Open Anomaly Alerts", "anomaly">>, <<"Open Audit Alerts", "audit_event">>,
           <<"Open Config Alerts", "config">>, <<"Open Data Alerts", "data">>,
           <<"Open IAM Alerts", "iam">>, <<"Open Network Alerts", "network">> >>)
    \o << Blank >>
    \o SummaryRows(R["alert_counts_from_policies"],
        << <<"Open Alerts with IaC", "shiftable">>,
           <<"Open Alerts with Remediation", "remediable">> >>)
    \o << Blank >>
    \o SummaryRows(R["alert_counts_from_policies"],
        << <<"Open Alerts Generated by Custom Policies", "custom">>,
           <<"Open Alerts Generated by Default Policies", "default">> >>)

(* A row of the list of lines 874-922: the label and the counter read on   *)
(* its line, or the blank row (line 0).                                    *)
Cell(line, label, dict, key) == [line |-> line, label |-> label, dict |-> dict, key |-> key]

BlankCell == Cell(0, "", "", "")

(* Lines 875-918. *)
AlertsSummaryCells ==
    << Cell(875, "Number of Compliance Standards with Alerts", "summary", "count_of_compliance_standards_with_alerts_from_alerts"),
       BlankCell,
       Cell(877, "Number of Policies with Alerts", "summary", "count_of_policies_with_alerts_from_alerts"),
       BlankCell,
       Cell(879, "Number of Alerts", "summary", "alert_count"),
       BlankCell,
       Cell(881, "Anomaly Alerts", "alert_totals_by_alert", "anomaly"),
       Cell(882, "Audit Alerts", "alert_totals_by_alert", "audit_event"),
       Cell(883, "Config Alerts", "alert_totals_by_alert", "config"),
       Cell(884, "Data Alerts", "alert_totals_by_alert", "data"),
       Cell(885, "IAM Alerts", "alert_totals_by_alert", "iam"),
       Cell(886, "Network Alerts", "alert_totals_by_alert", "network"),
       BlankCell,
       Cell(888, "Open Alerts", "alert_totals_by_alert", "open"),
       Cell(889, "Dismissed Alerts", "alert_totals_by_alert", "dismissed"),
       Cell(890, "Resolved Alerts", "alert_totals_by_alert", "resolved"),
       Cell(891, "Snoozed Alerts", "alert_totals_by_alert", "snoozed"),
       BlankCell,
       Cell(893, "Open Alerts High-Severity", "alert_totals_by_alert", "open_high"),
       Cell(894, "Open Alerts Medium-Severity", "alert_totals_by_alert", "open_medium"),
       Cell(895, "Open Alerts Low-Severity", "alert_totals_by_alert", "open_low"),
       BlankCell,
       Cell(897, "Dismissed Alerts High-Severity", "alert_totals_by_alert", "dismissed_high"),
       Cell(898, "Dismissed Alerts Medium-Severity", "alert_totals_by_alert", "dismissed_medium"),
       Cell(899, "Dismissed Alerts Low-Severity", "alert_totals_by_alert", "dismissed_low"),
       BlankCell,
       Cell(901, "Resolved Alerts High-Severity", "alert_totals_by_alert", "resolved_high"),
       Cell(902, "Resolved Alerts Medium-Severity", "alert_totals_by_alert", "resolved_medium"),
       Cell(903, "Resolved Alerts Low-Severity", "alert_totals_by_alert", "resolved_low"),
       BlankCell,
       Cell(905, "Snoozed Alerts High-Severity", "alert_totals_by_alert", "snoozed_high"),
       Cell(906, "Snoozed Alerts Medium-Severity", "alert_totals_by_alert", "snoozed_medium"),
       Cell(907, "Snoozed Alerts Low-Severity", "alert_totals_by_alert", "snoozed_low"),
       BlankCell,
       Cell(909, "Resolved By Delete Policy", "alert_totals_by_alert", "policy_deleted"),
       Cell(910, "Resolved By Delete Resourse", "alert_totals_by_alert", "resolved_deleted"),
       Cell(911, "Resolved By Update Resourse", "alert_totals_by_alert", "resolved_updated"),
       BlankCell,
       Cell(913, "Alerts Generated by Policies w IaC", "alert_totals_by_alert", "shiftable"),
       Cell(914, "Alerts Generated by Policies w Remediation", "alert_totals_by_alert", "remediable"),
       BlankCell,
       Cell(916, "Alerts Generated by Custom Policies", "alert_totals_by_alert", "custom"),
       Cell(917, "Alerts Generated by Default Policies", "alert_totals_by_alert", "default"),
       Cell(918, "Alerts Generated by Disabled Policies", "alert_totals_by_alert", "policies_disabled") >>

(* Lines 881-918: the counters of alert_totals_by_alert the sheet reads. *)
AlertTotalsRead ==
    LET reads == SelectSeq(AlertsSummaryCells, LAMBDA c : c.dict = "alert_totals_by_alert")
    IN  [ k \in DOMAIN reads |-> reads[k].key ]

(* The rows of the cells, or the KeyError of the line of the first counter *)
(* that is not in its dictionary.                                          *)
RECURSIVE ReadCells(_, _)
ReadCells(R, cells) ==
    IF cells = <<>> THEN [ rows |-> <<>>, raised |-> NoException ]
    ELSE LET c == Head(cells)
         IN  IF c.line # 0 /\ c.key \notin DOMAIN R[c.dict]
             THEN [ rows |-> <<>>, raised |-> Raised("KeyError", c.line) ]
             ELSE LET rest == ReadCells(R, Tail(cells))
                      row  == IF c.line = 0 THEN Blank ELSE << c.label, R[c.dict][c.key] >>
                  IN  IF rest.raised # NoException THEN rest
                      ELSE [ rows |-> << row >> \o rest.rows, raised |-> NoException ]

(* Lines 874-922: the rows of 'Open Closed Alerts Summary', ended by two   *)
(* blank rows and the time range, or the KeyError of the first counter     *)
(* that alert_totals_by_alert does not hold.                               *)
AlertsSummaryRows(R) ==
    LET r == ReadCells(R, AlertsSummaryCells)
    IN  IF r.raised # NoException THEN r
        ELSE [ rows |-> r.rows \o << Blank, Blank, TimeRangeRows[3] >>,
               raised |-> NoException ]

(* Lines 925-928. *)
DeletedPolicyRows(R) ==
    << <<"Deleted Policy", "Alert Count">> >>
    \o [ k \in DOMAIN sorted(R["policies_deleted"]) |->
           << sorted(R["policies_deleted"])[k],
              R["policies_deleted"][sorted(R["policies_deleted"])[k]] >> ]

(* Lines 740-784: output_collected_data does nothing, the writer is        *)
(* opened, and the Utilization sheet is written.                           *)
SheetUtilization ==
    /\ pc = "output"
    /\ panda_writer' = write_sheet(open_sheet, "Utilization", UtilizationRows(RESULTS, DATA))
    /\ pc' = "sheets_by_standard"
    /\ UNCHANGED <<CONFIG, DATA, RESULTS, idx, exc, calls, files, exit_code, out, job, accounts>>

(* Lines 786-808. *)
SheetsByStandard ==
    /\ pc = "sheets_by_standard"
    /\ LET w1 == write_sheet(panda_writer, "Open Alerts by Standard",
                             StandardRows(RESULTS["compliance_standards_counts_from_policies"]))
       IN  panda_writer' =
             IF CONFIG.SUPPORT_API_MODE THEN w1
             ELSE write_sheet(w1, "Open Closed Alerts by Standard",
                              StandardRows(RESULTS["compliance_standards_counts_from_alerts"])
                              \o TimeRangeRows)
    /\ pc' = "sheets_by_policy"
    /\ UNCHANGED <<CONFIG, DATA, RESULTS, idx, exc, calls, files, exit_code, out, job, accounts>>

(* Lines 810-844. *)
SheetsByPolicy ==
    /\ pc = "sheets_by_policy"
    /\ LET w1 == write_sheet(panda_writer, "Open Alerts by Policy", PolicyRows(RESULTS))
           r  == AlertPolicyRows(RESULTS)
       IN  IF CONFIG.SUPPORT_API_MODE
           THEN /\ panda_writer' = w1
                /\ pc' = "sheets_summary"
                /\ UNCHANGED exc
           ELSE IF r.raised # NoException
           THEN /\ panda_writer' = w1
                /\ Crash(r.raised)
           ELSE /\ panda_writer' = write_sheet(w1, "Open Closed Alerts by Policy", r.rows)
                /\ pc' = "sheets_summary"
                /\ UNCHANGED exc
    /\ UNCHANGED <<CONFIG, DATA, RESULTS, idx, calls, files, exit_code, out, job, accounts>>

(* Lines 846-929. *)
SheetsSummary ==
    /\ pc = "sheets_summary"
    /\ LET w1 == write_sheet(panda_writer, "Open Alerts Summary", OpenAlertsSummaryRows(RESULTS))
           r  == AlertsSummaryRows(RESULTS)
       IN  IF CONFIG.SUPPORT_API_MODE
           THEN /\ panda_writer' = w1
                /\ pc' = "save_sheet"
                /\ UNCHANGED exc
           ELSE IF r.raised # NoException
           THEN /\ panda_writer' = w1
                /\ Crash(r.raised)
           ELSE /\ panda_writer' =
                     write_sheet(write_sheet(w1, "Open Closed Alerts Summary", r.rows),
                                 "Deleted Policies", DeletedPolicyRows(RESULTS))
                /\ pc' = "save_sheet"
                /\ UNCHANGED exc
    /\ UNCHANGED <<CONFIG, DATA, RESULTS, idx, calls, files, exit_code, out, job, accounts>>

(* Line 931 and the end of the script: the spreadsheet is saved and the    *)
(* interpreter exits with code 0.                                          *)
SaveSheet ==
    /\ pc = "save_sheet"
    /\ panda_writer' = save_sheet(panda_writer)
    /\ pc' = "done"
    /\ exit_code' = "0"
    /\ UNCHANGED <<CONFIG, DATA, RESULTS, idx, exc, calls, files, out, job, accounts>>

-----------------------------------------------------------------------------
(* The states in which process_collected_data is entered: the files are    *)
(* read, and line 737 has set SUPPORT_API_MODE when the alerts are a dict. *)

InitProcess(policyLists, alertLists, aggregates) ==
    /\ \E policies \in policyLists, flag \in BOOLEAN :
         \/ \E alerts \in alertLists :
              /\ DATA = [ POLICIES |-> policies, ALERTS |-> JsonList(alerts),
                          ASSETS |-> [summary |-> [totalResources |-> 1]] ]
              /\ CONFIG = [ RUN_MODE |-> "process", SUPPORT_API_MODE |-> flag, token |-> FALSE,
                          PRISMA_API_ENDPOINT |-> TRUE, PRISMA_ACCESS_KEY |-> TRUE,
                          PRISMA_SECRET_KEY |-> TRUE ]
         \/ \E alerts \in aggregates :
              /\ DATA = [ POLICIES |-> policies, ALERTS |-> JsonDict(alerts),
                          ASSETS |-> [summary |-> [totalResources |-> 1]] ]
              /\ CONFIG = [ RUN_MODE |-> "process", SUPPORT_API_MODE |-> TRUE, token |-> FALSE,
                          PRISMA_API_ENDPOINT |-> TRUE, PRISMA_ACCESS_KEY |-> TRUE,
                          PRISMA_SECRET_KEY |-> TRUE ]
    /\ RESULTS = EmptyDict
    /\ pc = "process_collected_data"
    /\ idx = 0
    /\ exc = NoException
    /\ calls = <<>>
    /\ files = [f \in ResultFiles |-> FileOf("list", <<>>)]
    /\ exit_code = "running"
    /\ out = <<>>
    /\ job = <<>>
    /\ accounts = NoAccounts
    /\ panda_writer = NoWorkbook

Init == InitProcess(PolicyLists, FewAlertLists, AggregateResponses)

Next ==
    \/ BeginProcess
    \/ ProcessPolicy
    \/ BeginAlerts
    \/ ProcessAlertsSupport
    \/ ProcessAlert
    \/ ProcessSummary

Spec == Init /\ [][Next]_vars

(* The same aggregation over few policies and every alert. *)
InitAlerts == InitProcess(FewPolicyLists, AlertLists, FewAggregateResponses)

SpecAlerts == InitAlerts /\ [][Next]_vars

-----------------------------------------------------------------------------
(* A collecting run (modes collect and auto), from the login on.           *)

AccountRecords ==
    { [ accountId |-> a, accountType |-> t, cloudType |-> "aws", numberOfChildAccounts |-> n ] :
        a \in {"a1", "a2"}, t \in {"organization", "account"}, n \in {0, 2} }

(* What the project endpoint lists; a1 can be the parent itself. *)
ChildRecords ==
    { [ accountId |-> a, accountType |-> "account", cloudType |-> "aws",
        numberOfChildAccounts |-> n ] : a \in {"a1", "a3"}, n \in {0, 1} }

AccountLists == ListsUpTo(AccountRecords, MaxAccounts)

ChildLists == ListsUpTo(ChildRecords, MaxChildren)

FewAccountLists ==
    ListsUpTo({ r \in AccountRecords :
                  (r.accountType = "organization") = (r.numberOfChildAccounts > 0)
                  /\ (r.accountId = "a1") = (r.accountType = "organization") }, MaxAccounts)

FewChildLists ==
    { << [ accountId |-> "a1", accountType |-> "account", cloudType |-> "aws",
           numberOfChildAccounts |-> 0 ],
         [ accountId |-> "a3", accountType |-> "account", cloudType |-> "aws",
           numberOfChildAccounts |-> 0 ] >> }

EarlierFiles == [f \in ResultFiles |-> EarlierFile]

InitCollect ==
    /\ \E mode \in {"collect", "auto"}, support \in BOOLEAN :
         CONFIG = [ RUN_MODE |-> mode, SUPPORT_API_MODE |-> support, token |-> FALSE,
                          PRISMA_API_ENDPOINT |-> TRUE, PRISMA_ACCESS_KEY |-> TRUE,
                          PRISMA_SECRET_KEY |-> TRUE ]
    /\ files \in {EmptyDict, EarlierFiles}
    /\ DATA = EmptyDict
    /\ RESULTS = EmptyDict
    /\ pc = "get_prisma_login"
    /\ idx = 0
    /\ exc = NoException
    /\ calls = <<>>
    /\ exit_code = "running"
    /\ out = <<>>
    /\ job = <<>>
    /\ accounts = NoAccounts
    /\ panda_writer = NoWorkbook

NextCollect ==
    \/ Login
    \/ GetAssets
    \/ GetPolicies({<<>>})
    \/ AlertsAggregate({EmptyDict})
    \/ AlertsSubmit
    \/ AlertsStatus
    \/ AlertsDownload({<<>>})
    \/ GetUsers
    \/ AccountsRequest(FewAccountLists)
    \/ AccountStep(FewChildLists)
    \/ AccountsWrite
    \/ GetAccountGroups
    \/ GetAlertRules
    \/ GetIntegrations
    \/ AfterCollect

SpecCollect == InitCollect /\ [][NextCollect]_vars

(* The script is one sequential process: while it has not exited, its next *)
(* statement runs.  The status endpoint answers IN_PROGRESS at most        *)
(* MaxPolls times.                                                         *)
SpecCollectFair == SpecCollect /\ WF_vars(NextCollect)

(* get_accounts alone, entered as collect_data enters it: logged in, the   *)
(* categories before the accounts collected.                               *)
CallsBeforeAccounts(support) ==
    LET call(c, auth) == [category |-> c, request |-> Endpoint(c, support), auth |-> auth]
    IN  <<call("LOGIN", FALSE), call("ASSETS", TRUE), call("POLICIES", TRUE)>>
        \o (IF support THEN [k \in DOMAIN GroupByFields |-> call("ALERTS", TRUE)]
            ELSE <<call("ALERTS", TRUE), call("STATUS", TRUE), call("DOWNLOAD", TRUE)>>)
        \o <<call("USERS", TRUE)>>

InitAccounts ==
    /\ \E support \in BOOLEAN :
         /\ CONFIG = [ RUN_MODE |-> "collect", SUPPORT_API_MODE |-> support, token |-> TRUE,
                          PRISMA_API_ENDPOINT |-> TRUE, PRISMA_ACCESS_KEY |-> TRUE,
                          PRISMA_SECRET_KEY |-> TRUE ]
         /\ calls = CallsBeforeAccounts(support)
         /\ files = [ f \in {"ASSETS", "POLICIES", "ALERTS", "USERS"} |->
                        FileOf(IF f = "ASSETS" \/ (f = "ALERTS" /\ support)
                               THEN "dict" ELSE "list", <<>>) ]
         /\ job = IF support THEN <<>> ELSE <<"READY_TO_DOWNLOAD">>
    /\ DATA = EmptyDict
    /\ RESULTS = EmptyDict
    /\ pc = "get_accounts"
    /\ idx = 0
    /\ exc = NoException
    /\ exit_code = "running"
    /\ out = << "Results saved as: ASSETS", "Results saved as: POLICIES",
                "Results saved as: ALERTS", "Results saved as: USERS" >>
    /\ accounts = NoAccounts
    /\ panda_writer = NoWorkbook

NextAccounts ==
    \/ AccountsRequest(AccountLists)
    \/ AccountStep(ChildLists)
    \/ AccountsWrite

SpecAccounts == InitAccounts /\ [][NextAccounts]_vars

-----------------------------------------------------------------------------
(* A whole run of the script, from configure to its exit: collect, auto or *)
(* process mode.                                                           *)

(* p1 and p3 share the name A; B is listed before A in some responses. *)
RunPolicyRecords == { PolicyRecord(1, 1, 3), PolicyRecord(2, 2, 2), PolicyRecord(3, 3, 2) }

RunPolicyLists == PolicyListsOver(RunPolicyRecords)

(* A file a former collect run left on disk. *)
EarlierFileOf(type, value) == [run |-> "earlier", type |-> type, value |-> value]

(* The eight files of a former run: its policies and its alerts file. *)
CollectedFiles(policies, alerts) ==
    [ f \in ResultFiles |->
        CASE f = "ASSETS"   -> EarlierFileOf("dict", AssetsSummary)
          [] f = "POLICIES" -> EarlierFileOf("list", policies)
          [] f = "ALERTS"   -> alerts
          [] OTHER          -> EarlierFileOf("list", <<>>) ]

(* What a process run can find on disk: the files of a direct or of a      *)
(* support collection, the files but one, or nothing.                      *)
ProcessRunFiles ==
    { CollectedFiles(p, EarlierFileOf("list", a)) : p \in RunPolicyLists, a \in FewAlertLists }
    \cup { CollectedFiles(p, EarlierFileOf("dict", a)) :
             p \in RunPolicyLists, a \in FewAggregateResponses }
    \cup { Remove(CollectedFiles(<<>>, EarlierFileOf("list", <<>>)), f) : f \in ResultFiles }
    \cup { EmptyDict }

(* The URL and the keys on the command line: all, all but one, or none. *)
CredentialArguments ==
    { [url |-> u, access_key |-> a, secret_key |-> k] : u, a, k \in BOOLEAN }

ArgumentsOf(mode, support, credentials) ==
    [ RUN_MODE |-> mode, SUPPORT_API_MODE |-> support, token |-> FALSE,
      PRISMA_API_ENDPOINT |-> credentials.url, PRISMA_ACCESS_KEY |-> credentials.access_key,
      PRISMA_SECRET_KEY |-> credentials.secret_key ]

InitRun ==
    /\ \E support \in BOOLEAN, credentials \in CredentialArguments :
         \/ /\ CONFIG = ArgumentsOf("process", support, credentials)
            /\ credentials.url = credentials.access_key
            /\ credentials.url = credentials.secret_key
            /\ files \in ProcessRunFiles
         \/ /\ \E mode \in {"collect", "auto"} : CONFIG = ArgumentsOf(mode, support, credentials)
            /\ files \in {EmptyDict, EarlierFiles}
    /\ DATA = EmptyDict
    /\ RESULTS = EmptyDict
    /\ pc = "configure"
    /\ idx = 0
    /\ exc = NoException
    /\ calls = <<>>
    /\ exit_code = "running"
    /\ out = <<>>
    /\ job = <<>>
    /\ accounts = NoAccounts
    /\ panda_writer = NoWorkbook

NextRun ==
    \/ Configure
    \/ Login
    \/ GetAssets
    \/ GetPolicies(RunPolicyLists)
    \/ AlertsAggregate(FewAggregateResponses)
    \/ AlertsSubmit
    \/ AlertsStatus
    \/ AlertsDownload(FewAlertLists)
    \/ GetUsers
    \/ AccountsRequest(FewAccountLists)
    \/ AccountStep(FewChildLists)
    \/ AccountsWrite
    \/ GetAccountGroups
    \/ GetAlertRules
    \/ GetIntegrations
    \/ AfterCollect
    \/ ReadCollectedData
    \/ BeginProcess
    \/ ProcessPolicy
    \/ BeginAlerts
    \/ ProcessAlertsSupport
    \/ ProcessAlert
    \/ ProcessSummary
    \/ SheetUtilization
    \/ SheetsByStandard
    \/ SheetsByPolicy
    \/ SheetsSummary
    \/ SaveSheet

SpecRun == InitRun /\ [][NextRun]_vars

-----------------------------------------------------------------------------
(* A collecting run, and then a process run over the files it left.        *)

(* The script is started again, in process mode, in the directory of the   *)
(* run that has exited: a new process (CONFIG from its arguments, DATA     *)
(* empty), the same files.  calls, out and job keep the history of the     *)
(* first run.                                                              *)
LaterProcessRun ==
    /\ pc = "exited"
    /\ CONFIG.RUN_MODE \in {"collect", "auto"}
    /\ \E support \in BOOLEAN :
         CONFIG' = ArgumentsOf("process", support,
                               [url |-> FALSE, access_key |-> FALSE, secret_key |-> FALSE])
    /\ DATA' = EmptyDict
    /\ pc' = "configure"
    /\ exit_code' = "running"
    /\ idx' = 0
    /\ UNCHANGED <<RESULTS, exc, calls, files, out, job, accounts, panda_writer>>

InitTwoRuns == InitCollect

NextTwoRuns ==
    \/ Login
    \/ GetAssets
    \/ GetPolicies({<<>>})
    \/ AlertsAggregate({EmptyDict})
    \/ AlertsSubmit
    \/ AlertsStatus
    \/ AlertsDownload({<<>>})
    \/ GetUsers
    \/ AccountsRequest(FewAccountLists)
    \/ AccountStep(FewChildLists)
    \/ AccountsWrite
    \/ GetAccountGroups
    \/ GetAlertRules
    \/ GetIntegrations
    \/ AfterCollect
    \/ LaterProcessRun
    \/ Configure
    \/ ReadCollectedData

SpecTwoRuns == InitTwoRuns /\ [][NextTwoRuns]_vars

-----------------------------------------------------------------------------
(* Properties of the policy pass.                                          *)

Last(s) == s[Len(s)]

Range(s) == { s[k] : k \in DOMAIN s }

RECURSIVE SumOver(_, _)
SumOver(d, keys) ==
    IF keys = {} THEN 0
    ELSE LET k == CHOOSE x \in keys : TRUE
         IN  (IF k \in DOMAIN d THEN d[k] ELSE 0) + SumOver(d, keys \ {k})

(* The policies the loop of process_policies has been through. *)
PoliciesSeen ==
    IF pc = "process_policies" THEN SubSeq(DATA.POLICIES, 1, idx - 1) ELSE DATA.POLICIES

PolicyPassBegun == "alert_counts_from_policies" \in DOMAIN RESULTS

RECURSIVE SumOpenAlerts(_, _)
SumOpenAlerts(policies, severities) ==
    IF policies = <<>> THEN 0
    ELSE (IF Head(policies).severity \in severities THEN Head(policies).openAlertsCount ELSE 0)
         + SumOpenAlerts(Tail(policies), severities)

(* C1: once process_policies has run (and after each policy of its loop),  *)
(* open_high + open_medium + open_low equals open in                       *)
(* alert_counts_from_policies.                                             *)
C1_SeverityBucketsSumToOpen ==
    PolicyPassBegun =>
        LET c == RESULTS["alert_counts_from_policies"]
        IN  c["open_high"] + c["open_medium"] + c["open_low"] = c["open"]

C1_Witness ==
    /\ pc = "process_alerts"
    /\ Len(DATA.POLICIES) = 2
    /\ RESULTS["alert_counts_from_policies"]["open_high"] > 0
    /\ RESULTS["alert_counts_from_policies"]["open_low"] > 0

(* C2: on the direct path, open is the sum of the openAlertsCount of the   *)
(* policies gone through, and open_<s> the sum over those of severity s.   *)
C2_BucketsAreSumsOfCounts ==
    (PolicyPassBegun /\ ~CONFIG.SUPPORT_API_MODE) =>
        LET c == RESULTS["alert_counts_from_policies"]
        IN  /\ c["open"] = SumOpenAlerts(PoliciesSeen, Severities)
            /\ \A s \in Severities : c["open_" \o s] = SumOpenAlerts(PoliciesSeen, {s})

(* Two policies, high with 5 open alerts and medium with 3. *)
C2_Witness ==
    /\ pc = "process_alerts"
    /\ ~CONFIG.SUPPORT_API_MODE
    /\ Len(DATA.POLICIES) = 2
    /\ DATA.POLICIES[1].severity = "high" /\ DATA.POLICIES[1].openAlertsCount = 5
    /\ DATA.POLICIES[2].severity = "medium" /\ DATA.POLICIES[2].openAlertsCount = 3
    /\ RESULTS["alert_counts_from_policies"]["open"] = 8
    /\ RESULTS["alert_counts_from_policies"]["open_high"] = 5
    /\ RESULTS["alert_counts_from_policies"]["open_medium"] = 3
    /\ RESULTS["alert_counts_from_policies"]["open_low"] = 0

-----------------------------------------------------------------------------
(* Properties of the alert pass of the direct path.                        *)

AlertPassBegun == "alert_totals_by_alert" \in DOMAIN RESULTS /\ ~CONFIG.SUPPORT_API_MODE

AlertLoopLines == 641..684

(* The alerts the loop of process_alerts has started on. *)
AlertsAttempted ==
    CASE pc = "process_alerts" -> SubSeq(DATA.ALERTS.value, 1, idx - 1)
      [] pc = "crashed" /\ exc.line \in AlertLoopLines -> SubSeq(DATA.ALERTS.value, 1, idx)
      [] OTHER -> DATA.ALERTS.value

(* The alert's policy is in the policy table. *)
Resolvable(this_alert) == this_alert.policy.policyId \in DOMAIN RESULTS["policies"]

NumResolvable(alerts) == Cardinality({ k \in DOMAIN alerts : Resolvable(alerts[k]) })

NumDangling(alerts) == Cardinality({ k \in DOMAIN alerts : ~Resolvable(alerts[k]) })

(* C3, as claimed: every alert whose policy is in the table adds 1 to one  *)
(* severity bucket and to one type bucket of policy_totals_by_alert, and   *)
(* its pass ends without an exception.                                     *)
C3_Claim ==
    AlertPassBegun =>
        /\ (pc = "crashed" /\ exc.line \in AlertLoopLines)
              => ~Resolvable(DATA.ALERTS.value[idx])
        /\ SumOver(RESULTS["policy_totals_by_alert"], Severities) = NumResolvable(AlertsAttempted)
        /\ SumOver(RESULTS["policy_totals_by_alert"], PolicyTypes) = NumResolvable(AlertsAttempted)

(* C4, as claimed: every alert whose policy is not in the table adds 1 to  *)
(* policy_deleted, whatever its reason.                                    *)
C4_Claim ==
    AlertPassBegun =>
        RESULTS["alert_totals_by_alert"]["policy_deleted"] = NumDangling(AlertsAttempted)

(* A step of the loop on an alert whose policy is not in the table. *)
DanglingAlertStep ==
    /\ pc = "process_alerts"
    /\ ~CONFIG.SUPPORT_API_MODE
    /\ idx <= Len(DATA.ALERTS.value)
    /\ ~Resolvable(DATA.ALERTS.value[idx])
    /\ (pc' # pc \/ idx' # idx)

(* The aggregations fed through the alert's policy. *)
PolicyJoinedResults ==
    { "policies", "policies_by_name", "alert_counts_from_policies",
      "compliance_standards_counts_from_policies", "compliance_standards_counts_from_alerts",
      "policy_counts_from_alerts", "policy_totals_by_alert" }

PolicyJoinedTotals ==
    { "shiftable", "policy_disabled" }
    \cup { st \o "_" \o sv : st \in AlertStatuses, sv \in Severities }

(* C5, as claimed: the pass of an alert whose policy is not in the table   *)
(* changes no aggregation but policy_deleted and policies_deleted.         *)
C5_Claim ==
    [][ DanglingAlertStep =>
          /\ \A k \in (DOMAIN RESULTS) \ {"policies_deleted", "alert_totals_by_alert"} :
                RESULTS'[k] = RESULTS[k]
          /\ \A k \in (DOMAIN RESULTS["alert_totals_by_alert"]) \ {"policy_deleted"} :
                RESULTS'["alert_totals_by_alert"][k] = RESULTS["alert_totals_by_alert"][k]
      ]_vars

(* C5, amended: the pass of such an alert leaves the aggregations fed      *)
(* through the policy as they were; the alert's own counters are fed       *)
(* before the lookup: custom or default, its type, remediable if it is,    *)
(* and its status unless line 650 raised.                                  *)
C5_DanglingAlertFeedsOnlyItsOwnCounters ==
    [][ DanglingAlertStep =>
          LET t  == RESULTS["alert_totals_by_alert"]
              t2 == RESULTS'["alert_totals_by_alert"]
              a  == DATA.ALERTS.value[idx]
          IN  /\ \A k \in PolicyJoinedResults : RESULTS'[k] = RESULTS[k]
              /\ \A k \in PolicyJoinedTotals : t2[k] = t[k]
              /\ t2["default"] + t2["custom"] = t["default"] + t["custom"] + 1
              /\ SumOver(t2, PolicyTypes) = SumOver(t, PolicyTypes) + 1
              /\ a.policy.remediable => t2["remediable"] = t["remediable"] + 1
              /\ exc'.line # 650 => t2[a.status] = t[a.status] + 1
      ]_vars

C5_Witness ==
    /\ AlertPassBegun
    /\ pc = "crashed"
    /\ exc.type = "NameError"
    /\ ~Resolvable(DATA.ALERTS.value[idx])
    /\ RESULTS["alert_totals_by_alert"][DATA.ALERTS.value[idx].status] = 1
    /\ RESULTS["alert_totals_by_alert"]["policy_deleted"] = 0

-----------------------------------------------------------------------------
(* Properties of the compliance-standard rollups.                          *)

DeclaredBy(policy) ==
    IF "complianceMetadata" \in DOMAIN policy
    THEN { policy.complianceMetadata[k].standardName : k \in DOMAIN policy.complianceMetadata }
    ELSE {}

DeclaredByAny(policies) == UNION { DeclaredBy(policies[k]) : k \in DOMAIN policies }

RECURSIVE SumAlertCounts(_, _)
SumAlertCounts(policies, standard) ==
    IF policies = <<>> THEN 0
    ELSE (IF standard \in DeclaredBy(Head(policies))
          THEN AlertCountOf(RESULTS, CONFIG.SUPPORT_API_MODE, Head(policies)) ELSE 0)
         + SumAlertCounts(Tail(policies), standard)

NumDeclaring(policies, standard) ==
    Cardinality({ k \in DOMAIN policies : standard \in DeclaredBy(policies[k]) })

(* Resolvable alerts started on whose policy declares the standard. *)
NumAlertsOf(alerts, standard) ==
    Cardinality({ k \in DOMAIN alerts :
                    /\ Resolvable(alerts[k])
                    /\ standard \in SeqToSet(RESULTS["policies"][alerts[k].policy.policyId].complianceStandards) })

SeveritySum(counts) == counts["high"] + counts["medium"] + counts["low"]

(* C6, as claimed: the keys of both rollups are declared standards, and a  *)
(* standard's three counts sum to the number of attributions: one per      *)
(* policy declaring it, one per resolvable alert whose policy declares it. *)
C6_Claim ==
    /\ PolicyPassBegun =>
         LET rollup == RESULTS["compliance_standards_counts_from_policies"]
         IN  /\ DOMAIN rollup \subseteq DeclaredByAny(DATA.POLICIES)
             /\ \A s \in DOMAIN rollup : SeveritySum(rollup[s]) = NumDeclaring(PoliciesSeen, s)
    /\ AlertPassBegun =>
         LET rollup == RESULTS["compliance_standards_counts_from_alerts"]
         IN  /\ DOMAIN rollup \subseteq DeclaredByAny(DATA.POLICIES)
             /\ \A s \in DeclaredByAny(DATA.POLICIES) :
                   (IF s \in DOMAIN rollup THEN SeveritySum(rollup[s]) ELSE 0)
                       = NumAlertsOf(AlertsAttempted, s)

(* What lines 616-618 make of the policy rollup: its keys are the          *)
(* standards declared by the policies gone through, and a standard's three *)
(* counts sum to the alert counts of the policies declaring it, each       *)
(* policy counted once per distinct standard.                              *)
PolicyRollupSumsAlertCounts ==
    PolicyPassBegun =>
        LET rollup == RESULTS["compliance_standards_counts_from_policies"]
        IN  /\ DOMAIN rollup = DeclaredByAny(PoliciesSeen)
            /\ \A s \in DOMAIN rollup : SeveritySum(rollup[s]) = SumAlertCounts(PoliciesSeen, s)

-----------------------------------------------------------------------------
(* Properties of get_accounts.                                             *)

AccountsWritten == pc = "get_account_groups" /\ "ACCOUNTS" \in DOMAIN files

(* One account, whose children were asked for. *)
OneParent ==
    /\ AccountsWritten
    /\ Len(accounts.cloud) = 1
    /\ HasChildren(accounts.cloud[1], CONFIG.SUPPORT_API_MODE)

(* C7, as claimed: the account's k children make k rows, each with the     *)
(* parent's numberOfChildAccounts.                                         *)
C7_Claim ==
    OneParent =>
        LET rows == files["ACCOUNTS"].value
        IN  /\ Len(rows) = Len(accounts.project[1])
            /\ \A k \in DOMAIN rows :
                  rows[k].numberOfChildAccounts = accounts.cloud[1].numberOfChildAccounts

(* C7, amended: the k children make k rows; the row of the child whose     *)
(* accountId is the parent's has the parent's numberOfChildAccounts, and   *)
(* every other row is the child as the endpoint returned it.               *)
C7_ParentCountOnMatchingChild ==
    OneParent =>
        LET rows     == files["ACCOUNTS"].value
            parent   == accounts.cloud[1]
            children == accounts.project[1]
        IN  /\ Len(rows) = Len(children)
            /\ \A k \in DOMAIN rows :
                  IF children[k].accountId = parent.accountId
                  THEN /\ rows[k].accountId = parent.accountId
                       /\ rows[k].numberOfChildAccounts = parent.numberOfChildAccounts
                  ELSE rows[k] = children[k]

C7_Witness ==
    /\ OneParent
    /\ accounts.cloud[1].accountType = "organization"
    /\ accounts.cloud[1].numberOfChildAccounts = 2
    /\ Len(files["ACCOUNTS"].value) = 2
    /\ files["ACCOUNTS"].value[1].accountId = accounts.cloud[1].accountId
    /\ accounts.project[1][1].numberOfChildAccounts = 0
    /\ files["ACCOUNTS"].value[1].numberOfChildAccounts = 2
    /\ files["ACCOUNTS"].value[2].accountId # accounts.cloud[1].accountId
    /\ files["ACCOUNTS"].value[2].numberOfChildAccounts = 1

-----------------------------------------------------------------------------
(* Properties of the alert job poller and of make_api_call.                *)

CallsOf(category) == { k \in DOMAIN calls : calls[k].category = category }

NumCalls(category) == Cardinality(CallsOf(category))

(* The answers so far are IN_PROGRESS n times, then READY_TO_DOWNLOAD. *)
JobReady ==
    /\ job # <<>>
    /\ Last(job) = "READY_TO_DOWNLOAD"
    /\ \A k \in 1..(Len(job) - 1) : job[k] = "IN_PROGRESS"

(* C8: when the status endpoint has answered IN_PROGRESS n times and then  *)
(* READY_TO_DOWNLOAD, n + 1 status requests were made, and one download    *)
(* request follows them; no download request is made before that answer.   *)
C8_PollThenOneDownload ==
    /\ JobReady =>
          /\ NumCalls("STATUS") = Len(job)
          /\ NumCalls("DOWNLOAD") = (IF pc = "alert_job_download" THEN 0 ELSE 1)
    /\ NumCalls("DOWNLOAD") > 0 => JobReady
    /\ \A d \in CallsOf("DOWNLOAD"), st \in CallsOf("STATUS") : st < d

C8_Witness ==
    /\ job = <<"IN_PROGRESS", "IN_PROGRESS", "READY_TO_DOWNLOAD">>
    /\ NumCalls("STATUS") = 3
    /\ NumCalls("DOWNLOAD") = 1
    /\ pc = "get_users"

StatusNotExpected ==
    "Error with '/alert/jobs' API: 'status' in response not in ('IN_PROGRESS','READY_TO_DOWNLOAD')"

(* C9: after a status other than IN_PROGRESS and READY_TO_DOWNLOAD the     *)
(* poller has stopped: no status request after that answer, no download    *)
(* request, the error printed, and no alerts file.                         *)
C9_OtherStatusEndsPolling ==
    (job # <<>> /\ Last(job) = "FAILED") =>
        /\ NumCalls("STATUS") = Len(job)
        /\ NumCalls("DOWNLOAD") = 0
        /\ pc \notin {"alert_job_status", "alert_job_download"}
        /\ StatusNotExpected \in Range(out)
        /\ "ALERTS" \notin DOMAIN files

C9_Witness ==
    /\ job = <<"IN_PROGRESS", "FAILED">>
    /\ pc = "collected"
    /\ "ALERTS" \notin DOMAIN files
    /\ "USERS" \in DOMAIN files

ApiError == "Error with API"

(* The result file of the collector a request belongs to. *)
FileOfCategory(category) ==
    CASE category \in {"STATUS", "DOWNLOAD"} -> "ALERTS"
      [] category = "PROJECT" -> "ACCOUNTS"
      [] OTHER -> category

ApiFailed == ApiError \in Range(out)

(* C10: a request that fails (a response that is not ok, or a transport    *)
(* failure) ends the run at once with code 1: it is the last request, the  *)
(* error is the last thing printed, its collector's file does not exist,   *)
(* and no request or file write follows the exit.                          *)
C10_ApiFailureExitsOne ==
    /\ [](ApiFailed =>
            /\ pc = "exited"
            /\ exit_code = "1"
            /\ Last(out) = ApiError
            /\ FileOfCategory(Last(calls).category) \notin DOMAIN files)
    /\ [][ /\ (~ApiFailed /\ ApiFailed') => (Len(calls') = Len(calls) + 1 /\ exit_code' = "1")
           /\ exit_code # "running" => (calls' = calls /\ files' = files) ]_vars

C10_Witness ==
    /\ ApiFailed
    /\ exit_code = "1"
    /\ Last(calls).category = "PROJECT"
    /\ "USERS" \in DOMAIN files
    /\ "ACCOUNTS" \notin DOMAIN files

-----------------------------------------------------------------------------
(* Properties of a whole run.                                              *)

(* The code the process ends with: sys.exit's, 0 at the end of the script, *)
(* and 1 when an exception reached the top level.                          *)
ProcessExit == IF pc = "crashed" THEN "1" ELSE exit_code

(* What the collector prints when a request or the alert job fails. *)
JobErrors ==
    { "Error with '/alert/jobs' API: 'id' missing from response",
      "Error with '/alert/jobs' API: 'status' missing from response",
      StatusNotExpected }

CollectionErrors == JobErrors \cup {ApiError, "Error with API Login"}

CollectionError == \E k \in DOMAIN out : out[k] \in CollectionErrors

(* C11, as claimed: a run that met a collection error (a failed request,   *)
(* a job submission without 'id', a status answer without 'status', a job  *)
(* status that is not READY_TO_DOWNLOAD) never ends with code 0.           *)
C11_Claim == CollectionError => ProcessExit # "0"

RequiredMessages == { RequiredArguments[k][2] : k \in DOMAIN RequiredArguments }

(* C12: in collect and auto mode a missing URL, access key or secret key   *)
(* ends the run in configure, with code 1, its message printed and no      *)
(* request made; in process mode no such message is printed and the run    *)
(* exits only on a missing result file.                                    *)
C12_CredentialsRequiredToCollect ==
    /\ (CONFIG.RUN_MODE \in {"collect", "auto"} /\ FirstMissingArgument(CONFIG) # 0
          /\ pc # "configure") =>
            /\ pc = "exited"
            /\ exit_code = "1"
            /\ out = << RequiredArguments[FirstMissingArgument(CONFIG)][2] >>
            /\ calls = <<>>
    /\ (CONFIG.RUN_MODE \in {"collect", "auto"} /\ FirstMissingArgument(CONFIG) = 0) =>
            Range(out) \cap RequiredMessages = {}
    /\ CONFIG.RUN_MODE = "process" =>
            /\ Range(out) \cap RequiredMessages = {}
            /\ pc = "exited" => FirstMissingFile(files) # 0

(* The secret key is missing from a collect run. *)
C12_Witness ==
    /\ CONFIG.RUN_MODE = "collect"
    /\ CONFIG.PRISMA_API_ENDPOINT /\ CONFIG.PRISMA_ACCESS_KEY /\ ~CONFIG.PRISMA_SECRET_KEY
    /\ pc = "exited"
    /\ exit_code = "1"
    /\ out = << "Error: '--secret_key' is required" >>
    /\ calls = <<>>

(* C13, as claimed: no read and no increment of a counter meets a key the  *)
(* seeds left out: the aggregation raises no KeyError.                     *)
C13_Claim == exc.type # "KeyError"

(* The by-type answer of a support collection lists the six policy types. *)
AggregatesComplete ==
    ("ALERTS" \in DOMAIN files /\ files["ALERTS"].type = "dict") =>
        PolicyTypes \subseteq
            { files["ALERTS"].value["by_policy_type"][k].policyType :
                k \in DOMAIN files["ALERTS"].value["by_policy_type"] }

(* C14, as claimed: a full run whose requests all succeeded (an auto run   *)
(* that got past the collection) meets no exception on its way to the      *)
(* saved spreadsheet, on the direct and on the support path.               *)
C14_Claim == (CONFIG.RUN_MODE = "auto" /\ AggregatesComplete) => pc # "crashed"

(* collect_data has been through its last category. *)
Collected == "Results saved as: INTEGRATIONS" \in Range(out)

(* C15: a collect run reads no file, aggregates nothing and opens no       *)
(* spreadsheet, and once the last category is collected its next step is   *)
(* the exit with code 0; a process run makes no request.                   *)
C15_ModesKeepApart ==
    /\ [](CONFIG.RUN_MODE = "collect" =>
            /\ DOMAIN DATA = {}
            /\ DOMAIN RESULTS = {}
            /\ panda_writer = NoWorkbook
            /\ Collected => (pc \in {"collected", "exited"} /\ exit_code \in {"running", "0"}))
    /\ [](CONFIG.RUN_MODE = "process" => calls = <<>>)
    /\ [][ (CONFIG.RUN_MODE = "collect" /\ pc = "collected") =>
              (pc' = "exited" /\ exit_code' = "0") ]_vars

C15_Witness ==
    /\ CONFIG.RUN_MODE = "collect"
    /\ Collected
    /\ pc = "exited"
    /\ exit_code = "0"
    /\ DOMAIN files = ResultFiles
    /\ DOMAIN DATA = {}
    /\ ~panda_writer.open

(* C16: a process run that finds a result file missing has printed which   *)
(* one and exited with code 1 once read_collected_data is over: nothing is *)
(* aggregated, no spreadsheet is opened.                                   *)
C16_MissingFileStopsProcessRun ==
    (CONFIG.RUN_MODE = "process" /\ FirstMissingFile(files) # 0
       /\ pc \notin {"configure", "read_collected_data"}) =>
        /\ pc = "exited"
        /\ exit_code = "1"
        /\ out = << "Error: Query result file does not exist: "
                    \o ResultFileList[FirstMissingFile(files)] >>
        /\ DOMAIN RESULTS = {}
        /\ panda_writer = NoWorkbook

(* The integrations file, the last one read, is the one missing. *)
C16_Witness ==
    /\ CONFIG.RUN_MODE = "process"
    /\ DOMAIN files = ResultFiles \ {"INTEGRATIONS"}
    /\ pc = "exited"
    /\ exit_code = "1"
    /\ DOMAIN DATA = ResultFiles \ {"INTEGRATIONS"}
    /\ DOMAIN RESULTS = {}

-----------------------------------------------------------------------------
(* Properties of the report.                                               *)

SheetWritten(name) == \E k \in DOMAIN panda_writer.sheets : panda_writer.sheets[k].name = name

SheetNamed(name) ==
    panda_writer.sheets[CHOOSE k \in DOMAIN panda_writer.sheets :
                            panda_writer.sheets[k].name = name]

(* The rows of a table between its header and the time range lines that   *)
(* end the sheets of the direct path.                                      *)
DataRows(name) ==
    LET rows == SheetNamed(name).rows
    IN  IF name = "Open Closed Alerts by Standard"
        THEN SubSeq(rows, 2, Len(rows) - Len(TimeRangeRows))
        ELSE SubSeq(rows, 2, Len(rows))

IndexIn(order, x) == CHOOSE k \in DOMAIN order : order[k] = x

(* The first cells of the rows ascend, none occurring twice. *)
Ascending(rows) ==
    \A j, k \in DOMAIN rows :
        j < k => IndexIn(NameOrder, rows[j][1]) < IndexIn(NameOrder, rows[k][1])

FirstCells(rows) == { rows[k][1] : k \in DOMAIN rows }

(* One row per key of the rollup, ascending. *)
RowPerStandard(name, rollup) ==
    SheetWritten(name) =>
        /\ Len(DataRows(name)) = Cardinality(DOMAIN rollup)
        /\ FirstCells(DataRows(name)) = DOMAIN rollup
        /\ Ascending(DataRows(name))

StandardTables ==
    /\ RowPerStandard("Open Alerts by Standard",
                      RESULTS["compliance_standards_counts_from_policies"])
    /\ RowPerStandard("Open Closed Alerts by Standard",
                      RESULTS["compliance_standards_counts_from_alerts"])

(* The last policy of the list that carries the name. *)
LastNamed(policies, name) ==
    policies[CHOOSE k \in DOMAIN policies :
                /\ policies[k].name = name
                /\ \A j \in DOMAIN policies : j > k => policies[j].name # name]

(* C17, as claimed: 'Open Alerts by Policy' has a row per collected        *)
(* policy, ascending by name, also when policies share a name; the tables  *)
(* by standard have a row per standard of the rollup, ascending.           *)
C17_Claim ==
    /\ SheetWritten("Open Alerts by Policy") =>
          /\ Len(DataRows("Open Alerts by Policy")) = Len(DATA.POLICIES)
          /\ \A j, k \in DOMAIN DataRows("Open Alerts by Policy") :
                j < k => IndexIn(NameOrder, DataRows("Open Alerts by Policy")[j][1])
                           <= IndexIn(NameOrder, DataRows("Open Alerts by Policy")[k][1])
    /\ StandardTables

(* What the sheets do have: 'Open Alerts by Policy' has a row per distinct *)
(* policy name, ascending; a name several policies carry has the one row   *)
(* of the last of them in the list.  The tables by standard have a row per *)
(* standard of the rollup, ascending.                                      *)
RowPerPolicyName ==
    /\ SheetWritten("Open Alerts by Policy") =>
          LET rows == DataRows("Open Alerts by Policy")
          IN  /\ FirstCells(rows) = { DATA.POLICIES[k].name : k \in DOMAIN DATA.POLICIES }
              /\ Ascending(rows)
              /\ \A k \in DOMAIN rows :
                    LET policy == LastNamed(DATA.POLICIES, rows[k][1])
                    IN  /\ rows[k][4] = policy.severity
                        /\ rows[k][5] = policy.policyType
                        /\ rows[k][8] = RESULTS["policies"][policy.policyId].alertCount
    /\ StandardTables

(* p1 and p3, both named A: one row, p3's. *)
SharedNameOneRow ==
    /\ SheetWritten("Open Alerts by Policy")
    /\ Len(DATA.POLICIES) = 2
    /\ DATA.POLICIES[1].policyId = "p1" /\ DATA.POLICIES[2].policyId = "p3"
    /\ DATA.POLICIES[1].name = DATA.POLICIES[2].name
    /\ Len(DataRows("Open Alerts by Policy")) = 1
    /\ DataRows("Open Alerts by Policy")[1][4] = "low"
    /\ SheetWritten("Open Alerts by Standard")

-----------------------------------------------------------------------------
(* Properties of the status axis and of the support path.                  *)

(* C18, as claimed: on the direct path every alert the loop has started on *)
(* added 1 to one of the buckets open, resolved, dismissed and snoozed of  *)
(* alert_totals_by_alert, remediable or not, its policy in the table or    *)
(* not: the four buckets sum to the number of these alerts.                *)
C18_Claim ==
    AlertPassBegun =>
        SumOver(RESULTS["alert_totals_by_alert"], AlertStatuses) = Len(AlertsAttempted)

(* The alerts the aggregate answer lists under the name, or 0. *)
CountIn(items, keyField, key) ==
    IF \E k \in DOMAIN items : items[k][keyField] = key
    THEN items[CHOOSE k \in DOMAIN items :
                  /\ items[k][keyField] = key
                  /\ \A j \in DOMAIN items : j > k => items[j][keyField] # key].alerts
    ELSE 0

SupportPath == CONFIG.SUPPORT_API_MODE /\ DATA.ALERTS.type = "dict"

(* C19, as claimed: on the support path the alert count of every policy    *)
(* the loop has been through is the by-policy count of its name, or 0 when *)
(* the answer does not list the name; and the severity, type and status    *)
(* totals are copied from the answer with no exception, a category the     *)
(* answer leaves out (network, open) counting 0.                           *)
C19_Claim ==
    SupportPath =>
        /\ pc # "crashed"
        /\ PolicyPassBegun =>
              \A k \in DOMAIN PoliciesSeen :
                  (\A j \in DOMAIN PoliciesSeen :
                       j > k => PoliciesSeen[j].policyId # PoliciesSeen[k].policyId)
                  => RESULTS["policies"][PoliciesSeen[k].policyId].alertCount
                       = CountIn(DATA.ALERTS.value["by_policy"], "policyName",
                                 PoliciesSeen[k].name)
        /\ pc \in {"process_summary", "output"} =>
              /\ \A t \in PolicyTypes :
                    RESULTS["policy_totals_by_alert"][t]
                      = CountIn(DATA.ALERTS.value["by_policy_type"], "policyType", t)
              /\ \A v \in Severities :
                    RESULTS["policy_totals_by_alert"][v]
                      = CountIn(DATA.ALERTS.value["by_policy_severity"], "severity", v)
              /\ \A u \in {"open", "resolved"} :
                    RESULTS["alert_totals_by_alert"][u]
                      = CountIn(DATA.ALERTS.value["by_alert.status"], "status", u)

(* The part that holds: the alert counts, and the copy when the answer     *)
(* lists network.                                                          *)
SupportCountsButNetwork ==
    SupportPath =>
        /\ pc = "crashed" => exc = Raised("KeyError", 637)
                             /\ CountIn(DATA.ALERTS.value["by_policy_type"],
                                        "policyType", "network") = 0
        /\ PolicyPassBegun =>
              \A k \in DOMAIN PoliciesSeen :
                  (\A j \in DOMAIN PoliciesSeen :
                       j > k => PoliciesSeen[j].policyId # PoliciesSeen[k].policyId)
                  => RESULTS["policies"][PoliciesSeen[k].policyId].alertCount
                       = CountIn(DATA.ALERTS.value["by_policy"], "policyName",
                                 PoliciesSeen[k].name)
        /\ pc \in {"process_summary", "output"} =>
              /\ \A t \in PolicyTypes :
                    RESULTS["policy_totals_by_alert"][t]
                      = CountIn(DATA.ALERTS.value["by_policy_type"], "policyType", t)
              /\ \A u \in {"open", "resolved"} :
                    RESULTS["alert_totals_by_alert"][u]
                      = CountIn(DATA.ALERTS.value["by_alert.status"], "status", u)

-----------------------------------------------------------------------------
(* Properties of the order of a collection.                                *)

(* The place of the request's category in the order of collect_data; the   *)
(* login is before them all.                                               *)
CategoryRank(category) ==
    IF category = "LOGIN" THEN 0 ELSE IndexIn(ResultFileList, FileOfCategory(category))

WrittenThisRun(f) == f \in DOMAIN files /\ files[f].run = "this"

NumParents ==
    Cardinality({ k \in DOMAIN accounts.cloud :
                    HasChildren(accounts.cloud[k], CONFIG.SUPPORT_API_MODE) })

(* Login first and the token on every later request; the categories in the *)
(* order of collect_data, none left out; a child request per account that  *)
(* has children.                                                           *)
RequestOrder ==
    /\ calls # <<>> => calls[1].category = "LOGIN" /\ ~calls[1].auth
    /\ \A k \in DOMAIN calls : k > 1 => calls[k].category # "LOGIN" /\ calls[k].auth
    /\ \A k \in DOMAIN calls :
          k > 1 => /\ CategoryRank(calls[k - 1].category) <= CategoryRank(calls[k].category)
                   /\ CategoryRank(calls[k].category) <= CategoryRank(calls[k - 1].category) + 1
    /\ WrittenThisRun("ACCOUNTS") => NumCalls("PROJECT") = NumParents

(* C20, as claimed: the login is the first request and its token is on     *)
(* every request after it; the categories are requested in the order       *)
(* assets, policies, alerts, users, accounts, groups, alert rules,         *)
(* integrations; when a category is requested the file of every category   *)
(* before it has been written by this run; and the accounts step makes one *)
(* child request per account that has children.                            *)
C20_Claim ==
    /\ RequestOrder
    /\ calls # <<>> =>
          \A k \in DOMAIN ResultFileList :
              k < CategoryRank(Last(calls).category) => WrittenThisRun(ResultFileList[k])

(* The part that holds: only the alerts file can be missing, after a job   *)
(* that was not submitted or did not get ready.                            *)
OrderButAlertsFile ==
    /\ RequestOrder
    /\ calls # <<>> =>
          \A k \in DOMAIN ResultFileList :
              k < CategoryRank(Last(calls).category) =>
                  \/ WrittenThisRun(ResultFileList[k])
                  \/ ResultFileList[k] = "ALERTS" /\ CollectionError

-----------------------------------------------------------------------------
(* Properties of the poll loop.                                            *)

Polling == pc = "alert_job_status"

(* C21: every pass of the poll loop makes one status request and nothing   *)
(* else; an answer IN_PROGRESS keeps the run in the loop, however many     *)
(* came before it, and any other answer (or one without 'status') takes it *)
(* out; so the loop ends once the endpoint stops answering IN_PROGRESS.    *)
C21_PollLoopEndsWithTheJob ==
    /\ [][Polling =>
            /\ Len(calls') = Len(calls) + 1
            /\ Last(calls').category = "STATUS"
            /\ job' # job =>
                  /\ job' = Append(job, Last(job'))
                  /\ Polling' <=> Last(job') = "IN_PROGRESS"
            /\ job' = job => pc' = "exited" /\ exit_code' = "1"]_vars
    /\ [](Polling => /\ NumCalls("STATUS") = Len(job)
                     /\ \A k \in DOMAIN job : job[k] = "IN_PROGRESS")
    /\ Polling ~> ~Polling

(* MaxPolls answers IN_PROGRESS, a status request made for each, then one  *)
(* without 'status': the loop has ended.                                   *)
C21_Witness ==
    /\ Len(job) = MaxPolls + 1
    /\ \A k \in 1..MaxPolls : job[k] = "IN_PROGRESS"
    /\ Last(job) = "missing"
    /\ NumCalls("STATUS") = MaxPolls + 1
    /\ pc = "get_users"

-----------------------------------------------------------------------------
(* Properties of the type and origin buckets of the policy pass.           *)

(* C22: once process_policies has run (and after each policy of its loop), *)
(* in alert_counts_from_policies the six type buckets sum to open, custom  *)
(* plus default is open, and remediable and shiftable are each at most     *)
(* open.                                                                   *)
C22_TypeAndOriginBucketsSumToOpen ==
    PolicyPassBegun =>
        LET c == RESULTS["alert_counts_from_policies"]
        IN  /\ SumOver(c, PolicyTypes) = c["open"]
            /\ c["custom"] + c["default"] = c["open"]
            /\ c["remediable"] <= c["open"]
            /\ c["shiftable"] <= c["open"]

(* Two policies with alerts, of two types, one custom and one default, one *)
(* of them remediable.                                                     *)
C22_Witness ==
    /\ pc = "process_alerts"
    /\ Len(DATA.POLICIES) = 2
    /\ DATA.POLICIES[1].policyType # DATA.POLICIES[2].policyType
    /\ LET c == RESULTS["alert_counts_from_policies"]
       IN  /\ c["custom"] > 0 /\ c["default"] > 0
           /\ c["remediable"] > 0 /\ c["remediable"] < c["open"]
           /\ c["shiftable"] > 0 /\ c["shiftable"] < c["open"]
           /\ Cardinality({ t \in PolicyTypes : c[t] > 0 }) = 2

-----------------------------------------------------------------------------
(* Properties of the policies with alerts (direct path).                   *)

DirectPath == "ALERTS" \in DOMAIN DATA /\ DATA.ALERTS.type = "list" /\ ~CONFIG.SUPPORT_API_MODE

(* The policies of the table that an alert of the file names. *)
PoliciesWithAlerts ==
    { id \in DOMAIN RESULTS["policies"] :
        \E k \in DOMAIN DATA.ALERTS.value : DATA.ALERTS.value[k].policy.policyId = id }

(* C23, as claimed: on the direct path the summary's                       *)
(* count_of_policies_with_alerts_from_alerts is the number of policies of  *)
(* the table that have an alert, and 'Open Closed Alerts by Policy' is     *)
(* written with one data row for each of them and no other.                *)
C23_Claim ==
    DirectPath =>
        /\ "summary" \in DOMAIN RESULTS =>
              RESULTS["summary"]["count_of_policies_with_alerts_from_alerts"]
                = Cardinality(PoliciesWithAlerts)
        /\ exc # Raised("TypeError", 831)
        /\ SheetWritten("Open Closed Alerts by Policy") =>
              LET rows == SheetNamed("Open Closed Alerts by Policy").rows
                  data == SubSeq(rows, 2, Len(rows) - Len(TimeRangeRows))
              IN  /\ Len(data) = Cardinality(PoliciesWithAlerts)
                  /\ FirstCells(data) = { RESULTS["policies"][id].policyName :
                                            id \in PoliciesWithAlerts }

(* What the run does instead: the summary counts the eleven seeds of       *)
(* policy_counts_from_alerts, no alert adds a policy to them, and the      *)
(* sheet is never written.                                                 *)
PolicyCountIsTheSeeds ==
    DirectPath =>
        /\ "summary" \in DOMAIN RESULTS =>
              /\ DATA.ALERTS.value = <<>>
              /\ RESULTS["summary"]["count_of_policies_with_alerts_from_alerts"]
                   = Cardinality(DOMAIN policy_counts_from_alerts_seed)
        /\ ~SheetWritten("Open Closed Alerts by Policy")

-----------------------------------------------------------------------------
(* Properties of a process run over the files of a collection.             *)

(* A process run that has read the eight files. *)
ProcessRunLoaded ==
    /\ CONFIG.RUN_MODE = "process"
    /\ pc # "exited"
    /\ "ALERTS" \in DOMAIN DATA

(* C24, as claimed: in a process run the path of the aggregation is the    *)
(* one of the alerts file, whatever --support_api says: a dict goes        *)
(* through process_aggregated_alerts, a list through the loop over the     *)
(* alerts, and neither meets the code of the other.                        *)
C24_Claim ==
    ProcessRunLoaded =>
        /\ CONFIG.SUPPORT_API_MODE <=> DATA.ALERTS.type = "dict"
        /\ exc # Raised("TypeError", 557)

(* What holds: a dict always takes the aggregate path; a list takes the    *)
(* path --support_api names.                                               *)
DictTakesAggregatePath ==
    ProcessRunLoaded =>
        /\ DATA.ALERTS.type = "dict" => CONFIG.SUPPORT_API_MODE
        /\ exc = Raised("TypeError", 557) =>
              DATA.ALERTS.type = "list" /\ CONFIG.SUPPORT_API_MODE

-----------------------------------------------------------------------------
(* Properties of the files a failed collection leaves.                     *)

(* A request of a collector failed: the run exited in that collector. *)
StepFailed == ApiFailed /\ Last(calls).category # "LOGIN"

(* get_alerts returned without a download. *)
JobAbandoned == \E k \in DOMAIN out : out[k] \in JobErrors

StaleFile(f) == f \in DOMAIN files /\ files[f].run = "earlier"

(* C25: once a collector has made a request no file of an earlier run is   *)
(* left for its category; after a request of the collector failed, or      *)
(* get_alerts gave its job up, the category has no file at all; and a      *)
(* process run started afterwards exits with code 1 in read_collected_data *)
(* without loading the category, and never gets to the aggregation.        *)
C25_NoStaleFileAfterFailure ==
    /\ \A k \in DOMAIN calls :
          calls[k].category # "LOGIN" => ~StaleFile(FileOfCategory(calls[k].category))
    /\ StepFailed => FileOfCategory(Last(calls).category) \notin DOMAIN files
    /\ JobAbandoned => "ALERTS" \notin DOMAIN files
    /\ (StepFailed \/ JobAbandoned) =>
          /\ pc # "process_collected_data"
          /\ (CONFIG.RUN_MODE = "process" /\ pc = "exited") =>
                /\ exit_code = "1"
                /\ StepFailed => FileOfCategory(Last(calls).category) \notin DOMAIN DATA
                /\ JobAbandoned => "ALERTS" \notin DOMAIN DATA

(* The policy request failed in a directory that held the files of an      *)
(* earlier run: the later process run exited with code 1, the earlier      *)
(* alerts file still there.                                                *)
C25_Witness ==
    /\ CONFIG.RUN_MODE = "process"
    /\ pc = "exited" /\ exit_code = "1"
    /\ StepFailed
    /\ Last(calls).category = "POLICIES"
    /\ "POLICIES" \notin DOMAIN files
    /\ StaleFile("ALERTS")
    /\ Last(out) = "Error: Query result file does not exist: POLICIES"

-----------------------------------------------------------------------------
(* Properties of the columns of the tables by policy.                      *)

PolicyTables == {"Open Alerts by Policy", "Open Closed Alerts by Policy"}

(* The rows of the table that are policies: the first cell is a name of    *)
(* policies_by_name.                                                       *)
PolicyRowsOf(name) ==
    LET rows == SheetNamed(name).rows
    IN  { k \in 2..Len(rows) :
            /\ rows[k] # ""
            /\ Len(rows[k]) = Len(PolicyHeader) }

(* C26, as claimed: in every policy row of the tables by policy the sixth  *)
(* cell (With IAC) is the policy's policyShiftable, 'build' being one of   *)
(* its sub-types, and the seventh (With Remediation) its policyRemediable. *)
C26_Claim ==
    \A name \in PolicyTables :
        SheetWritten(name) =>
            \A k \in PolicyRowsOf(name) :
                LET row    == SheetNamed(name).rows[k]
                    policy == RESULTS["policies"][RESULTS["policies_by_name"][row[1]].policyId]
                IN  /\ row[6] = policy.policyShiftable
                    /\ row[7] = policy.policyRemediable

(* What the rows hold: policyRemediable in both cells. *)
RemediableInBothColumns ==
    \A name \in PolicyTables :
        SheetWritten(name) =>
            \A k \in PolicyRowsOf(name) :
                LET row    == SheetNamed(name).rows[k]
                    policy == RESULTS["policies"][RESULTS["policies_by_name"][row[1]].policyId]
                IN  /\ row[6] = policy.policyRemediable
                    /\ row[7] = policy.policyRemediable

=============================================================================
